---- MODULE Spec2Model ----
(***************************************************************************)
(* Agent registry (src/query-full-2.py): the document store, the write     *)
(* handlers (register, patch, delete) and the discovery pipeline (staged   *)
(* retrieval, scoring, ranking, hydration).                                *)
(*                                                                         *)
(* Representation.  A Python str is a sequence of one-character strings,   *)
(* a dict is a function whose DOMAIN is its set of keys, a JSON value for  *)
(* "roles" carries its Python type ([t |-> "list"] or [t |-> "str"]), a    *)
(* timestamp is the reading of an integer clock.  The store is a dict from *)
(* storage key to document.                                                *)
(***************************************************************************)
EXTENDS Integers, Sequences, FiniteSets, TLC

VARIABLES
  store,      \* the Cosmos container: storage key -> document
  clock,      \* wall clock read by _utc_now_iso
  config,     \* module-level configuration read from the environment
  wr,         \* writer requests in flight: per writer, its position and locals
  dq          \* the discovery request in flight: its position and locals

vars == <<store, clock, config, wr, dq>>

\* ------------------------------------------------------------------ bounds
MaxClock == 1

\* ------------------------------------------------------------------ str
Min(S) == CHOOSE x \in S : \A y \in S : x <= y
Max(S) == CHOOSE x \in S : \A y \in S : x >= y

Upper == <<"A","B","C","D","E","F","G","H","I","J","K","L","M",
           "N","O","P","Q","R","S","T","U","V","W","X","Y","Z">>
LowerLetters == <<"a","b","c","d","e","f","g","h","i","j","k","l","m",
           "n","o","p","q","r","s","t","u","v","w","x","y","z">>

\* str.lower() on one character
LowerChar(c) ==
  IF \E i \in 1..Len(Upper) : Upper[i] = c
  THEN LowerLetters[CHOOSE i \in 1..Len(Upper) : Upper[i] = c]
  ELSE c

\* str.lower()
StrLower(s) == [i \in 1..Len(s) |-> LowerChar(s[i])]

IsSpace(c) == c \in {" ", "\t", "\n"}

\* str.strip()
StrStrip(s) ==
  LET keep == {i \in 1..Len(s) : ~IsSpace(s[i])}
  IN  IF keep = {} THEN <<>> ELSE SubSeq(s, Min(keep), Max(keep))

\* str.startswith(p)
StartsWith(s, p) == Len(p) <= Len(s) /\ SubSeq(s, 1, Len(p)) = p

\* p in s
StrContains(s, p) ==
  \E i \in 0..(Len(s) - Len(p)) : SubSeq(s, i + 1, i + Len(p)) = p

\* str.split(","): the pieces between commas, empty pieces kept
RECURSIVE SplitComma(_)
SplitComma(s) ==
  LET commas == {i \in 1..Len(s) : s[i] = ","}
  IN  IF commas = {} THEN <<s>>
      ELSE <<SubSeq(s, 1, Min(commas) - 1)>>
           \o SplitComma(SubSeq(s, Min(commas) + 1, Len(s)))

\* str.isdigit()
IsDigitStr(s) ==
  Len(s) > 0 /\ \A i \in 1..Len(s) :
      s[i] \in {"0","1","2","3","4","5","6","7","8","9"}

DigitVal(c) ==
  CASE c = "0" -> 0 [] c = "1" -> 1 [] c = "2" -> 2 [] c = "3" -> 3
    [] c = "4" -> 4 [] c = "5" -> 5 [] c = "6" -> 6 [] c = "7" -> 7
    [] c = "8" -> 8 [] c = "9" -> 9

\* int(s) for a string of digits
RECURSIVE ParseInt(_)
ParseInt(s) ==
  IF Len(s) = 0 THEN 0
  ELSE ParseInt(SubSeq(s, 1, Len(s) - 1)) * 10 + DigitVal(s[Len(s)])

\* [f(x) for x in xs if p(x)] helpers
RECURSIVE FilterNonEmpty(_)
FilterNonEmpty(xs) ==
  IF xs = <<>> THEN <<>>
  ELSE (IF Head(xs) = <<>> THEN <<>> ELSE <<Head(xs)>>) \o FilterNonEmpty(Tail(xs))

\* ------------------------------------------------------------------ dict
EmptyDict == [k \in {} |-> k]
Has(d, k) == k \in DOMAIN d
Put(d, k, v) == [x \in (DOMAIN d) \cup {k} |-> IF x = k THEN v ELSE d[x]]
Del(d, k) == [x \in (DOMAIN d) \ {k} |-> d[x]]
\* d.setdefault(k, v)
SetDefault(d, k, v) == IF Has(d, k) THEN d ELSE Put(d, k, v)
\* _safe_str(d.get(k)): a missing key reads as None, which prints as ""
GetStr(d, k) == IF Has(d, k) THEN d[k] ELSE <<>>

RolesList(l) == [t |-> "list", v |-> l]
RolesStr(s) == [t |-> "str", v |-> s]

\* ------------------------------------------------------------------ helpers
\* _safe_lower(v) == _safe_str(v).strip().lower()
\* A mutant that folds case but forgets to trim.
SafeLowerNoStrip(s) == StrLower(s)
SafeLower(s) == StrLower(StrStrip(s))

\* A mutant of the normaliser that trims the entries and keeps the empty ones.
NormalizeRolesKeepEmpty(value) ==
  IF value.t = "list"
  THEN RolesList([i \in 1..Len(value.v) |-> StrStrip(value.v[i])])
  ELSE LET parts == SplitComma(value.v)
       IN  RolesList([i \in 1..Len(parts) |-> StrStrip(parts[i])])
\* _normalize_roles(value): value is a tagged list or str
NormalizeRoles(value) ==
  IF value.t = "list"
  THEN RolesList(FilterNonEmpty([i \in 1..Len(value.v) |-> StrStrip(value.v[i])]))
  ELSE LET parts == SplitComma(value.v)
       IN  RolesList(FilterNonEmpty([i \in 1..Len(parts) |-> StrStrip(parts[i])]))

\* _normalize_roles(d.get("roles")): None gives []
NormalizeRolesOf(d) ==
  IF Has(d, "roles") THEN NormalizeRoles(d["roles"]) ELSE RolesList(<<>>)

\* A mutant that extends the roles_lc the document already carries.
ApplySearchFieldsAppend(doc) ==
  LET r0 == IF Has(doc, "roles") THEN doc["roles"] ELSE RolesList(<<>>)
      roles == IF r0.t = "list" THEN r0 ELSE NormalizeRoles(r0)
      d1 == Put(doc, "name_lc", SafeLower(GetStr(doc, "name")))
      d2 == Put(d1, "agent_id_lc", SafeLower(GetStr(doc, "agent_id")))
      d3 == Put(d2, "appid_lc", SafeLower(GetStr(doc, "appid")))
      d4 == Put(d3, "test_lc", SafeLower(GetStr(doc, "test")))
  IN  Put(d4, "roles_lc",
          (IF Has(doc, "roles_lc") THEN doc["roles_lc"] ELSE <<>>)
          \o FilterNonEmpty([i \in 1..Len(roles.v) |-> SafeLower(roles.v[i])]))
\* A mutant that leaves the shadow fields as they are.
ApplySearchFieldsStale(doc) == doc
\* _apply_search_fields(doc)
ApplySearchFields(doc) ==
  LET r0 == IF Has(doc, "roles") THEN doc["roles"] ELSE RolesList(<<>>)
      roles == IF r0.t = "list" THEN r0 ELSE NormalizeRoles(r0)
      d1 == Put(doc, "name_lc", SafeLower(GetStr(doc, "name")))
      d2 == Put(d1, "agent_id_lc", SafeLower(GetStr(doc, "agent_id")))
      d3 == Put(d2, "appid_lc", SafeLower(GetStr(doc, "appid")))
      d4 == Put(d3, "test_lc", SafeLower(GetStr(doc, "test")))
  IN  Put(d4, "roles_lc",
          FilterNonEmpty([i \in 1..Len(roles.v) |-> SafeLower(roles.v[i])]))

\* agent_id = payload.get("agent_id") or payload.get("appid")
UpsertAgentId(payload) ==
  IF GetStr(payload, "agent_id") # <<>> THEN payload["agent_id"]
  ELSE GetStr(payload, "appid")

\* the text of the ValueError _agent_upsert raises
MissingFieldsMessage == "Missing required fields: agent_id (or appid), name"

\* A mutant of the validity test that checks the name only.
UpsertValidNoId(payload) == GetStr(payload, "name") # <<>>
\* if not agent_id or not name: raise ValueError
UpsertValid(payload) ==
  UpsertAgentId(payload) # <<>> /\ GetStr(payload, "name") # <<>>

\* A mutant of the upsert that stores the name trimmed.
UpsertDocTrimName(payload, now) ==
  LET agent_id == UpsertAgentId(payload)
      d1 == Put(payload, "id", agent_id)
      d2 == Put(d1, "agent_id", agent_id)
      d3 == SetDefault(d2, "appid", agent_id)
      d4 == Put(d3, "name", StrStrip(payload["name"]))
      d5 == Put(d4, "roles", NormalizeRolesOf(payload))
      d6 == SetDefault(d5, "enabled", TRUE)
      d7 == SetDefault(d6, "createdAt", now)
      d8 == Put(d7, "updatedAt", now)
  IN  ApplySearchFields(d8)
\* The document _agent_upsert builds from a payload at time now
UpsertDoc(payload, now) ==
  LET agent_id == UpsertAgentId(payload)
      d1 == Put(payload, "id", agent_id)
      d2 == Put(d1, "agent_id", agent_id)
      d3 == SetDefault(d2, "appid", agent_id)
      d4 == Put(d3, "name", payload["name"])
      d5 == Put(d4, "roles", NormalizeRolesOf(payload))
      d6 == SetDefault(d5, "enabled", TRUE)
      d7 == SetDefault(d6, "createdAt", now)
      d8 == Put(d7, "updatedAt", now)
  IN  ApplySearchFields(d8)

\* ------------------------------------------------------------------ store
REGISTRY_ADMIN_KEY == "dev-admin-key"

\* _require_admin(req): the x-admin-key header, "" when missing
\* A mutant that lets every caller through.
RequireAdminOpen(hdr) == TRUE
RequireAdmin(hdr) == hdr = REGISTRY_ADMIN_KEY

\* A mutant of the upsert that merges the new document into the stored one.
UpsertItemMerge(st, doc) ==
  IF doc["id"] \in DOMAIN st
  THEN Put(st, doc["id"],
           [k \in (DOMAIN st[doc["id"]]) \cup (DOMAIN doc) |->
              IF k \in DOMAIN doc THEN doc[k] ELSE st[doc["id"]][k]])
  ELSE Put(st, doc["id"], doc)
\* container.upsert_item(doc): full replace keyed by doc["id"]
UpsertItem(st, doc) == Put(st, doc["id"], doc)

\* container.read_item(item, partition_key): _agent_get returns None when absent
AgentExists(st, agent_id) == agent_id \in DOMAIN st

\* A mutant whose replace writes the document whether or not the item exists.
ReplaceItemUpsert(st, agent_id, read) == TRUE
\* A mutant that replaces only when the stored document is still the one read
\* (an if-match precondition on the replace).
ReplaceItemIfMatch(st, agent_id, read) ==
  agent_id \in DOMAIN st /\ st[agent_id] = read
\* container.replace_item(item, body) succeeds iff the item exists: the call
\* passes no etag or match condition
ReplaceItemOk(st, agent_id, read) == agent_id \in DOMAIN st

\* the fields registry_patch_agent merges from the patch body
PatchScalarFields == {"name", "enabled", "appid", "test"}

RECURSIVE MergeFields(_, _, _)
MergeFields(existing, patch, fields) ==
  IF fields = {} THEN existing
  ELSE LET f == CHOOSE x \in fields : TRUE
           e == IF Has(patch, f) THEN Put(existing, f, patch[f]) ELSE existing
       IN  MergeFields(e, patch, fields \ {f})

\* A mutant of the merge that takes id and agent_id from the patch body when
\* it carries them.
PatchMergeBodyKey(existing, patch, agent_id, now) ==
  LET e1 == MergeFields(existing, patch, PatchScalarFields)
      e2 == IF Has(patch, "roles")
            THEN Put(e1, "roles", NormalizeRoles(patch["roles"])) ELSE e1
      e3 == Put(Put(e2, "id", IF Has(patch, "id") THEN patch["id"] ELSE agent_id),
                "agent_id", IF Has(patch, "agent_id") THEN patch["agent_id"]
                            ELSE agent_id)
  IN  ApplySearchFields(Put(e3, "updatedAt", now))
\* A mutant of the merge that copies every key of the patch body.
PatchMergeAllFields(existing, patch, agent_id, now) ==
  LET e1 == MergeFields(existing, patch, (DOMAIN patch) \ {"roles"})
      e2 == IF Has(patch, "roles")
            THEN Put(e1, "roles", NormalizeRoles(patch["roles"])) ELSE e1
  IN  ApplySearchFields(Put(e2, "updatedAt", now))
\* A mutant whose merge list lacks "name".
PatchMergeNoName(existing, patch, agent_id, now) ==
  LET e1 == MergeFields(existing, patch, PatchScalarFields \ {"name"})
      e2 == IF Has(patch, "roles")
            THEN Put(e1, "roles", NormalizeRoles(patch["roles"])) ELSE e1
      e3 == Put(Put(e2, "id", agent_id), "agent_id", agent_id)
  IN  ApplySearchFields(Put(e3, "updatedAt", now))
\* registry_patch_agent: the document built from the read copy and the patch
PatchMerge(existing, patch, agent_id, now) ==
  LET e1 == MergeFields(existing, patch, PatchScalarFields)
      e2 == IF Has(patch, "roles")
            THEN Put(e1, "roles", NormalizeRoles(patch["roles"])) ELSE e1
      e3 == Put(Put(e2, "id", agent_id), "agent_id", agent_id)
  IN  ApplySearchFields(Put(e3, "updatedAt", now))

\* ------------------------------------------------------------------ inputs
S_a1 == <<"a","1">>
S_b2 == <<"b","2">>
S_ops == <<"o","p","s">>
S_Ops == <<"O","p","s">>
S_OpsPadded == <<" ","O","p","s"," ">>
S_Bot == <<"B","o","t">>
S_zzz == <<"z","z","z">>
S_RolesCsv == <<"F","i","n",","," ",",","o","p","s">>
S_Dev == <<" ","D","e","v">>
S_T1 == <<" ","T","1">>

\* worker 1 serves every route; worker 2 serves patch requests beside it
Writers == {1, 2}
Idle == [pc |-> "idle"]

WritePayloads ==
  { [agent_id |-> S_a1, name |-> S_OpsPadded, roles |-> RolesStr(S_RolesCsv)],
    [appid |-> S_b2, name |-> S_Bot, enabled |-> FALSE, createdAt |-> 0,
     name_lc |-> S_zzz],
    [agent_id |-> S_a1],
    [name |-> S_Bot],
    [agent_id |-> <<>>, appid |-> <<>>, name |-> S_Bot],
    [appid |-> S_b2, name |-> <<>>] }

WritePatches ==
  { [enabled |-> FALSE, name_lc |-> S_zzz, agent_id |-> S_zzz, createdAt |-> 9],
    [name |-> S_Bot, roles |-> RolesList(<<S_Dev, <<" ">> >>), test |-> S_T1] }

RouteIds == {S_a1, S_b2}
AdminHeaders == {REGISTRY_ADMIN_KEY, ""}

\* ------------------------------------------------------------------ writes
\* POST registry/register: one store call (upsert_item)
Register(w, hdr, payload) ==
  /\ wr[w].pc = "idle"
  /\ IF ~RequireAdmin(hdr)
     THEN /\ wr' = [wr EXCEPT ![w] = [pc |-> "done", op |-> "register", status |-> 401]]
          /\ UNCHANGED store
     ELSE IF ~UpsertValid(payload)
     THEN /\ wr' = [wr EXCEPT ![w] = [pc |-> "done", op |-> "register", status |-> 400,
                                      message |-> MissingFieldsMessage]]
          /\ UNCHANGED store
     ELSE LET doc == UpsertDoc(payload, clock)
          IN  /\ store' = UpsertItem(store, doc)
              /\ wr' = [wr EXCEPT ![w] = [pc |-> "done", op |-> "register",
                                          status |-> 200, agent_id |-> doc["id"]]]
  /\ UNCHANGED <<clock, config, dq>>

\* PATCH registry/agents/{agent_id}, first store call: existing = _agent_get
PatchGet(w, hdr, agent_id, patch) ==
  /\ wr[w].pc = "idle"
  /\ IF ~RequireAdmin(hdr)
     THEN wr' = [wr EXCEPT ![w] = [pc |-> "done", op |-> "patch", status |-> 401]]
     ELSE IF ~AgentExists(store, agent_id)
     THEN wr' = [wr EXCEPT ![w] = [pc |-> "done", op |-> "patch", status |-> 404]]
     ELSE wr' = [wr EXCEPT ![w] = [pc |-> "patch_replace", agent_id |-> agent_id,
                                   patch |-> patch, existing |-> store[agent_id]]]
  /\ UNCHANGED <<store, clock, config, dq>>

\* PATCH, merge and second store call: replace_item raises when the item is gone
PatchReplace(w) ==
  /\ wr[w].pc = "patch_replace"
  /\ LET merged == PatchMerge(wr[w].existing, wr[w].patch, wr[w].agent_id, clock)
     IN  IF ReplaceItemOk(store, wr[w].agent_id, wr[w].existing)
         THEN /\ store' = Put(store, wr[w].agent_id, merged)
              /\ wr' = [wr EXCEPT ![w] = [pc |-> "done", op |-> "patch",
                                          status |-> 200, agent |-> merged]]
         ELSE /\ UNCHANGED store
              /\ wr' = [wr EXCEPT ![w] = [pc |-> "done", op |-> "patch", status |-> 500]]
  /\ UNCHANGED <<clock, config, dq>>

\* A mutant of the delete handler that answers 200 for an absent record.
DeleteAgentIdempotent(w, hdr, agent_id) ==
  /\ wr[w].pc = "idle"
  /\ IF ~RequireAdmin(hdr)
     THEN /\ wr' = [wr EXCEPT ![w] = [pc |-> "done", op |-> "delete", status |-> 401]]
          /\ UNCHANGED store
     ELSE /\ store' = Del(store, agent_id)
          /\ wr' = [wr EXCEPT ![w] = [pc |-> "done", op |-> "delete", status |-> 200]]
  /\ UNCHANGED <<clock, config, dq>>

\* DELETE registry/agents/{agent_id}: one store call (delete_item)
DeleteAgent(w, hdr, agent_id) ==
  /\ wr[w].pc = "idle"
  /\ IF ~RequireAdmin(hdr)
     THEN /\ wr' = [wr EXCEPT ![w] = [pc |-> "done", op |-> "delete", status |-> 401]]
          /\ UNCHANGED store
     ELSE IF ~AgentExists(store, agent_id)
     THEN /\ wr' = [wr EXCEPT ![w] = [pc |-> "done", op |-> "delete", status |-> 404]]
          /\ UNCHANGED store
     ELSE /\ store' = Del(store, agent_id)
          /\ wr' = [wr EXCEPT ![w] = [pc |-> "done", op |-> "delete", status |-> 200]]
  /\ UNCHANGED <<clock, config, dq>>

\* GET registry/agents/{agent_id}: one store call (read_item), no admin key
GetAgent(w, agent_id) ==
  /\ wr[w].pc = "idle"
  /\ IF AgentExists(store, agent_id)
     THEN wr' = [wr EXCEPT ![w] = [pc |-> "done", op |-> "get", status |-> 200,
                                   agent |-> store[agent_id]]]
     ELSE wr' = [wr EXCEPT ![w] = [pc |-> "done", op |-> "get", status |-> 404]]
  /\ UNCHANGED <<store, clock, config, dq>>

\* the response has been sent; the worker takes the next request
WriterReturn(w) ==
  /\ wr[w].pc = "done"
  /\ wr' = [wr EXCEPT ![w] = Idle]
  /\ UNCHANGED <<store, clock, config, dq>>

\* time passes between two readings of _utc_now_iso
Tick ==
  /\ clock < MaxClock
  /\ clock' = clock + 1
  /\ UNCHANGED <<store, config, wr, dq>>

DISCOVERY_HYDRATE_MAX == 10

InitWrites ==
  /\ store = EmptyDict
  /\ clock = 0
  /\ config = [DISCOVERY_TOP_K |-> 20]
  /\ wr = [w \in Writers |-> Idle]
  /\ dq = Idle

NextWrites ==
  \/ \E h \in AdminHeaders, p \in WritePayloads : Register(1, h, p)
  \/ \E w \in Writers, h \in AdminHeaders, a \in RouteIds, p \in WritePatches :
        PatchGet(w, h, a, p)
  \/ \E w \in Writers : PatchReplace(w)
  \/ \E h \in AdminHeaders, a \in RouteIds : DeleteAgent(1, h, a)
  \/ \E a \in RouteIds : GetAgent(1, a)
  \/ \E w \in Writers : WriterReturn(w)
  \/ Tick

SpecWrites == InitWrites /\ [][NextWrites]_vars

\* ------------------------------------------------------------------ retrieval
\* _search_projection_fields(): the properties a discovery query selects; a
\* property the document lacks is left out of the projection
ProjectionFields ==
  {"id", "agent_id", "name", "appid", "enabled", "roles", "test", "updatedAt",
   "createdAt", "agent_id_lc", "name_lc", "appid_lc", "test_lc", "roles_lc"}

Project(doc) == [k \in (DOMAIN doc) \cap ProjectionFields |-> doc[k]]

ScalarShadows == {"agent_id_lc", "name_lc", "appid_lc", "test_lc"}

\* A mutant whose exact stage leaves name_lc out of the WHERE clause.
MatchExactNoName(doc, qn) ==
  \/ \E k \in ScalarShadows \ {"name_lc"} : Has(doc, k) /\ doc[k] = qn
  \/ Has(doc, "roles_lc") /\ \E i \in 1..Len(doc["roles_lc"]) : doc["roles_lc"][i] = qn
\* stage 1 WHERE clause: equality on a scalar shadow, or ARRAY_CONTAINS(roles_lc)
MatchExact(doc, qn) ==
  \/ \E k \in ScalarShadows : Has(doc, k) /\ doc[k] = qn
  \/ Has(doc, "roles_lc") /\ \E i \in 1..Len(doc["roles_lc"]) : doc["roles_lc"][i] = qn

\* stage 2 WHERE clause: STARTSWITH on a scalar shadow or on a role
MatchPrefix(doc, qn) ==
  \/ \E k \in ScalarShadows : Has(doc, k) /\ StartsWith(doc[k], qn)
  \/ Has(doc, "roles_lc")
       /\ \E i \in 1..Len(doc["roles_lc"]) : StartsWith(doc["roles_lc"][i], qn)

\* stage 3 WHERE clause: CONTAINS on a scalar shadow or on a role
MatchContains(doc, qn) ==
  \/ \E k \in ScalarShadows : Has(doc, k) /\ StrContains(doc[k], qn)
  \/ Has(doc, "roles_lc")
       /\ \E i \in 1..Len(doc["roles_lc"]) : StrContains(doc["roles_lc"][i], qn)

MatchAll(doc, qn) == TRUE

MatchOf(stage, doc, qn) ==
  CASE stage = "exact" -> MatchExact(doc, qn)
    [] stage = "prefix" -> MatchPrefix(doc, qn)
    [] stage = "contains" -> MatchContains(doc, qn)
    [] stage = "all" -> MatchAll(doc, qn)

\* A mutant of the store query that ignores TOP.
QueryItemsNoTop(st, stage, qn, top) ==
  LET keys == {a \in DOMAIN st : MatchOf(stage, st[a], qn)}
      n == Cardinality(keys)
  IN  {[i \in 1..n |-> Project(st[ks[i]])] :
         ks \in {f \in [1..n -> keys] : \A i, j \in 1..n : i # j => f[i] # f[j]}}
\* container.query_items("SELECT TOP @top ... WHERE <stage>"): the possible
\* results, the first `top` matching documents in an order the store chooses
QueryItems(st, stage, qn, top) ==
  LET keys == {a \in DOMAIN st : MatchOf(stage, st[a], qn)}
      n == Min({top, Cardinality(keys)})
  IN  {[i \in 1..n |-> Project(st[ks[i]])] :
         ks \in {f \in [1..n -> keys] : \A i, j \in 1..n : i # j => f[i] # f[j]}}

\* ------------------------------------------------------------------ scoring
\* agent.get(k1) or agent.get(k2), printed by _safe_str
OrGet(agent, k1, k2) ==
  IF GetStr(agent, k1) # <<>> THEN agent[k1] ELSE GetStr(agent, k2)

\* the roles list _score_agent_match matches against
ScoreRoles(agent) ==
  IF Has(agent, "roles_lc")
  THEN FilterNonEmpty([i \in 1..Len(agent["roles_lc"]) |-> SafeLower(agent["roles_lc"][i])])
  ELSE IF Has(agent, "roles")
  THEN FilterNonEmpty([i \in 1..Len(agent["roles"].v) |-> SafeLower(agent["roles"].v[i])])
  ELSE <<>>

\* [r for r in roles if p(r)]
RECURSIVE SelectRoles(_, _, _)
SelectRoles(roles, tier, qn) ==
  IF roles = <<>> THEN <<>>
  ELSE LET r == Head(roles)
           hit == CASE tier = "exact" -> r = qn
                    [] tier = "prefix" -> StartsWith(r, qn)
                    [] tier = "contains" -> StrContains(r, qn)
       IN  (IF hit THEN <<r>> ELSE <<>>) \o SelectRoles(Tail(roles), tier, qn)

\* ", ".join(xs)
RECURSIVE JoinComma(_)
JoinComma(xs) ==
  IF xs = <<>> THEN <<>>
  ELSE IF Len(xs) = 1 THEN xs[1]
  ELSE xs[1] \o <<",", " ">> \o JoinComma(Tail(xs))

\* A mutant in which every matching tier of a field adds its points.
ScoreFieldAdditive(field, qn, raw, wExact, wPrefix, wContains, label) ==
  [score |-> (IF field = qn THEN wExact ELSE 0)
             + (IF StartsWith(field, qn) THEN wPrefix ELSE 0)
             + (IF StrContains(field, qn) THEN wContains ELSE 0),
   reasons |-> IF StrContains(field, qn) THEN << <<label \o " match">> >> ELSE <<>>]
\* one scalar field's if/elif/elif: <<points, reasons>>
ScoreField(field, qn, raw, wExact, wPrefix, wContains, label) ==
  IF field = qn
  THEN [score |-> wExact, reasons |-> << <<"exact " \o label \o " match", raw>> >>]
  ELSE IF StartsWith(field, qn)
  THEN [score |-> wPrefix, reasons |-> << <<label \o " prefix match">> >>]
  ELSE IF StrContains(field, qn)
  THEN [score |-> wContains, reasons |-> << <<label \o " contains search term">> >>]
  ELSE [score |-> 0, reasons |-> <<>>]

\* A mutant of the role rule that forgets the caps of 60 and 50.
ScoreRoleRuleUncapped(roles, qn) ==
  LET exact_roles == SelectRoles(roles, "exact", qn)
      prefix_roles == SelectRoles(roles, "prefix", qn)
      contains_roles == SelectRoles(roles, "contains", qn)
  IN  IF exact_roles # <<>>
      THEN [score |-> 80, reasons |-> << <<"exact role match: ", exact_roles[1]>> >>]
      ELSE IF prefix_roles # <<>>
      THEN [score |-> Len(prefix_roles) * 25,
            reasons |-> << <<"role prefix match: ", prefix_roles[1]>> >>]
      ELSE IF contains_roles # <<>>
      THEN [score |-> Len(contains_roles) * 20,
            reasons |-> << <<"matched role(s): ", JoinComma(contains_roles)>> >>]
      ELSE [score |-> 0, reasons |-> <<>>]
\* the role rule: exact, else prefix, else contains
ScoreRoleRule(roles, qn) ==
  LET exact_roles == SelectRoles(roles, "exact", qn)
      prefix_roles == SelectRoles(roles, "prefix", qn)
      contains_roles == SelectRoles(roles, "contains", qn)
  IN  IF exact_roles # <<>>
      THEN [score |-> 80, reasons |-> << <<"exact role match: ", exact_roles[1]>> >>]
      ELSE IF prefix_roles # <<>>
      THEN [score |-> Min({Len(prefix_roles) * 25, 60}),
            reasons |-> << <<"role prefix match: ", prefix_roles[1]>> >>]
      ELSE IF contains_roles # <<>>
      THEN [score |-> Min({Len(contains_roles) * 20, 50}),
            reasons |-> << <<"matched role(s): ",
                 JoinComma(SubSeq(contains_roles, 1, Min({3, Len(contains_roles)})))>> >>]
      ELSE [score |-> 0, reasons |-> <<>>]

\* A mutant of the scorer that compares the fields with q as typed, not folded.
ScoreAgentMatchRawQuery(agent, q) ==
  LET qn == q
      name == SafeLower(OrGet(agent, "name_lc", "name"))
      agent_id == SafeLower(OrGet(agent, "agent_id_lc", "agent_id"))
      appid == SafeLower(OrGet(agent, "appid_lc", "appid"))
      test_field == SafeLower(OrGet(agent, "test_lc", "test"))
      n == ScoreField(name, qn, GetStr(agent, "name"), 120, 85, 70, "name")
      i == ScoreField(agent_id, qn, GetStr(agent, "agent_id"), 115, 80, 65, "agent_id")
      a == ScoreField(appid, qn, GetStr(agent, "appid"), 95, 70, 55, "appid")
      r == ScoreRoleRule(ScoreRoles(agent), qn)
      t == IF test_field # <<>>
           THEN ScoreField(test_field, qn, GetStr(agent, "test"), 85, 55, 40, "test")
           ELSE [score |-> 0, reasons |-> <<>>]
      e == IF (IF Has(agent, "enabled") THEN agent["enabled"] ELSE TRUE)
           THEN [score |-> 10, reasons |-> << <<"agent is enabled">> >>]
           ELSE [score |-> 0, reasons |-> << <<"agent is disabled">> >>]
  IN  IF qn = <<>> THEN [score |-> 0, reasons |-> <<>>]
      ELSE [score |-> n.score + i.score + a.score + r.score + t.score + e.score,
            reasons |-> n.reasons \o i.reasons \o a.reasons \o r.reasons
                        \o t.reasons \o e.reasons]
\* A mutant in which a prefix match of the name also collects the contains points.
ScoreAgentMatchFallThrough(agent, q) ==
  LET qn == SafeLower(q)
      name == SafeLower(OrGet(agent, "name_lc", "name"))
      n == ScoreField(name, qn, GetStr(agent, "name"), 120, 85 + 70, 70, "name")
      i == ScoreField(SafeLower(OrGet(agent, "agent_id_lc", "agent_id")), qn,
                      GetStr(agent, "agent_id"), 115, 80, 65, "agent_id")
      a == ScoreField(SafeLower(OrGet(agent, "appid_lc", "appid")), qn,
                      GetStr(agent, "appid"), 95, 70, 55, "appid")
      r == ScoreRoleRule(ScoreRoles(agent), qn)
      t == ScoreField(SafeLower(OrGet(agent, "test_lc", "test")), qn,
                      GetStr(agent, "test"), 85, 55, 40, "test")
      e == IF (IF Has(agent, "enabled") THEN agent["enabled"] ELSE TRUE)
           THEN [score |-> 10, reasons |-> << <<"agent is enabled">> >>]
           ELSE [score |-> 0, reasons |-> << <<"agent is disabled">> >>]
  IN  IF qn = <<>> THEN [score |-> 0, reasons |-> <<>>]
      ELSE [score |-> n.score + i.score + a.score + r.score + t.score + e.score,
            reasons |-> n.reasons \o i.reasons \o a.reasons \o r.reasons
                        \o t.reasons \o e.reasons]
\* _score_agent_match(agent, q)
ScoreAgentMatch(agent, q) ==
  LET qn == SafeLower(q)
      name == SafeLower(OrGet(agent, "name_lc", "name"))
      agent_id == SafeLower(OrGet(agent, "agent_id_lc", "agent_id"))
      appid == SafeLower(OrGet(agent, "appid_lc", "appid"))
      test_field == SafeLower(OrGet(agent, "test_lc", "test"))
      n == ScoreField(name, qn, GetStr(agent, "name"), 120, 85, 70, "name")
      i == ScoreField(agent_id, qn, GetStr(agent, "agent_id"), 115, 80, 65, "agent_id")
      a == ScoreField(appid, qn, GetStr(agent, "appid"), 95, 70, 55, "appid")
      r == ScoreRoleRule(ScoreRoles(agent), qn)
      t == IF test_field # <<>>
           THEN ScoreField(test_field, qn, GetStr(agent, "test"), 85, 55, 40, "test")
           ELSE [score |-> 0, reasons |-> <<>>]
      e == IF (IF Has(agent, "enabled") THEN agent["enabled"] ELSE TRUE)
           THEN [score |-> 10, reasons |-> << <<"agent is enabled">> >>]
           ELSE [score |-> 0, reasons |-> << <<"agent is disabled">> >>]
  IN  IF qn = <<>> THEN [score |-> 0, reasons |-> <<>>]
      ELSE [score |-> n.score + i.score + a.score + r.score + t.score + e.score,
            reasons |-> n.reasons \o i.reasons \o a.reasons \o r.reasons
                        \o t.reasons \o e.reasons]

\* A mutant of the sort in which a later candidate overtakes an equal score.
RECURSIVE SortByScoreDescUnstable(_)
SortByScoreDescUnstable(xs) ==
  IF xs = <<>> THEN <<>>
  ELSE LET rest == SortByScoreDescUnstable(SubSeq(xs, 1, Len(xs) - 1))
           x == xs[Len(xs)]
           before == {k \in 1..Len(rest) : rest[k].score > x.score}
           pos == IF before = {} THEN 0 ELSE Max(before)
       IN  SubSeq(rest, 1, pos) \o <<x>> \o SubSeq(rest, pos + 1, Len(rest))
\* list.sort(key=score, reverse=True): stable, equal scores keep their order
RECURSIVE SortByScoreDesc(_)
SortByScoreDesc(xs) ==
  IF xs = <<>> THEN <<>>
  ELSE LET rest == SortByScoreDesc(SubSeq(xs, 1, Len(xs) - 1))
           x == xs[Len(xs)]
           before == {k \in 1..Len(rest) : rest[k].score >= x.score}
           pos == IF before = {} THEN 0 ELSE Max(before)
       IN  SubSeq(rest, 1, pos) \o <<x>> \o SubSeq(rest, pos + 1, Len(rest))

\* A mutant of the ranker that scores the candidates and forgets to sort them.
RankCandidatesUnsorted(candidates, q) ==
  [k \in 1..Len(candidates) |->
      [agent |-> candidates[k],
       score |-> ScoreAgentMatch(candidates[k], q).score,
       reasons |-> ScoreAgentMatch(candidates[k], q).reasons]]
\* _rank_candidates(candidates, q)
RankCandidates(candidates, q) ==
  SortByScoreDesc([k \in 1..Len(candidates) |->
      [agent |-> candidates[k],
       score |-> ScoreAgentMatch(candidates[k], q).score,
       reasons |-> ScoreAgentMatch(candidates[k], q).reasons]])

\* ------------------------------------------------------------------ discovery
NoneVal == [none |-> TRUE]

\* _to_bool(v, default=False); a missing parameter reads as ""
ToBool(v) ==
  SafeLower(v) \in {<<"1">>, <<"t","r","u","e">>, <<"y","e","s">>, <<"y">>, <<"o","n">>}

\* A mutant that clamps only from above.
TopKNoFloor(top_param, default) ==
  IF top_param # <<>> /\ IsDigitStr(top_param)
  THEN Min({ParseInt(top_param), 100})
  ELSE default
\* registry_discover: top_k from the top parameter, else DISCOVERY_TOP_K
TopK(top_param, default) ==
  IF top_param # <<>> /\ IsDigitStr(top_param)
  THEN Max({1, Min({ParseInt(top_param), 100})})
  ELSE default

\* A mutant of the justification that joins every reason.
JustificationAllReasons(q, best_agent, best_score, best_reasons) ==
  [search |-> q,
   name_or_id |-> IF GetStr(best_agent, "name") # <<>> THEN best_agent["name"]
                  ELSE GetStr(best_agent, "agent_id"),
   agent_id |-> GetStr(best_agent, "agent_id"),
   score |-> best_score,
   reasons |-> best_reasons]
\* the justification sentence, kept as its parts
Justification(q, best_agent, best_score, best_reasons) ==
  [search |-> q,
   name_or_id |-> IF GetStr(best_agent, "name") # <<>> THEN best_agent["name"]
                  ELSE GetStr(best_agent, "agent_id"),
   agent_id |-> GetStr(best_agent, "agent_id"),
   score |-> best_score,
   reasons |-> SubSeq(best_reasons, 1, Min({4, Len(best_reasons)}))]

\* the 200 response of the list path
ListResponse(d, candidates, diagnostics, agents_payload) ==
  [pc |-> "done", status |-> 200, q_param |-> d.q_param, calls |-> d.calls,
   scored |-> 0, ranked |-> FALSE, reads |-> d.reads, top_k |-> d.top_k,
   body |-> [count |-> Len(candidates), q |-> NoneVal, diagnostics |-> diagnostics,
             agents |-> IF d.debug \/ d.include_full THEN agents_payload
                        ELSE candidates]]

\* the 200 response when nothing matched
NoMatchResponse(d, diagnostics) ==
  [pc |-> "done", status |-> 200, q_param |-> d.q_param, calls |-> d.calls,
   scored |-> 0, ranked |-> TRUE, reads |-> d.reads, top_k |-> d.top_k,
   body |-> [count |-> 0, q |-> d.q, best_match |-> NoneVal, best_match_score |-> 0,
             best_match_reasons |-> <<>>,
             justification |-> [no_match |-> d.q], diagnostics |-> diagnostics,
             candidates |-> IF d.debug THEN <<>> ELSE NoneVal]]

\* the 200 response with a best match
BestResponse(d, count, diagnostics, ranked, best_agent) ==
  LET base == [count |-> count, q |-> d.q, best_match |-> best_agent,
               best_match_score |-> ranked[1].score,
               best_match_reasons |-> ranked[1].reasons,
               justification |-> Justification(d.q, best_agent, ranked[1].score,
                                               ranked[1].reasons),
               diagnostics |-> diagnostics]
  IN  [pc |-> "done", status |-> 200, q_param |-> d.q_param, calls |-> d.calls,
       scored |-> Len(ranked), ranked |-> TRUE, reads |-> d.reads, top_k |-> d.top_k,
       body |-> IF d.debug THEN Put(base, "candidates_ranked", ranked) ELSE base]

\* registry_discover after retrieval, q not empty: rank, then answer or hydrate
AfterRetrieval(d, candidates, diagnostics) ==
  LET ranked == RankCandidates(candidates, d.q)
  IN  IF ranked = <<>> THEN NoMatchResponse(d, diagnostics)
      ELSE IF d.include_full
      THEN [pc |-> "hydrate_best", q_param |-> d.q_param, q |-> d.q, debug |-> d.debug,
            include_full |-> d.include_full, top_k |-> d.top_k, calls |-> d.calls,
            reads |-> d.reads, count |-> Len(candidates),
            diagnostics |-> diagnostics, ranked |-> ranked]
      ELSE BestResponse(d, Len(candidates), diagnostics, ranked, ranked[1].agent)

\* the store's log of the queries a request issued, each with what it returned
Called(d, stage, items) ==
  [d EXCEPT !.calls = Append(d.calls, [stage |-> stage, items |-> items])]

Staged(stage) == [strategy |-> "staged", stage_used |-> stage]

\* A mutant that takes the parameter untrimmed.
DiscoverQRaw(q_param) == q_param
\* q = _safe_str(req.params.get("q")).strip()
DiscoverQ(q_param) == StrStrip(q_param)

\* _query_candidates_staged: if not q or not q.strip()
RetrieverNoQuery(q) == q = <<>> \/ StrStrip(q) = <<>>

\* A mutant that escalates unless a stage returns two or more records.
StageHitTwo(items) == Len(items) >= 2
\* if stage1: / if stage2:
StageHit(items) == items # <<>>

\* GET registry/discover: parameters parsed, no store call yet
DiscoverBegin(q_param, top_param, debug_param, full_param) ==
  /\ dq.pc = "idle"
  /\ LET q == DiscoverQ(q_param)
     IN  dq' = [pc |-> IF RetrieverNoQuery(q) THEN "list" ELSE "exact",
                q_param |-> q_param, q |-> q, debug |-> ToBool(debug_param),
                include_full |-> ToBool(full_param),
                top_k |-> TopK(top_param, config.DISCOVERY_TOP_K),
                calls |-> <<>>, reads |-> 0]
  /\ UNCHANGED <<store, clock, config, wr>>

\* _query_candidates_staged, no query: the unfiltered scan; then the handler's
\* own test of q chooses the list response or ranking
QueryList ==
  /\ dq.pc = "list"
  /\ \E items \in QueryItems(store, "all", <<>>, dq.top_k) :
       LET d == Called(dq, "all", items)
           diagnostics == [strategy |-> "list", stage_used |-> "all"]
           max_items == Min({d.top_k, DISCOVERY_HYDRATE_MAX})
       IN  dq' = IF d.q # <<>> THEN AfterRetrieval(d, items, diagnostics)
                 ELSE IF d.include_full /\ Min({max_items, Len(items)}) > 0
                 THEN [pc |-> "hydrate_list", q_param |-> d.q_param, q |-> d.q,
                       debug |-> d.debug,
                       include_full |-> d.include_full, top_k |-> d.top_k,
                       calls |-> d.calls, reads |-> d.reads, candidates |-> items,
                       diagnostics |-> diagnostics, out |-> <<>>, next |-> 1]
                 ELSE ListResponse(d, items, diagnostics,
                                   IF d.include_full THEN <<>> ELSE items)
  /\ UNCHANGED <<store, clock, config, wr>>

\* _query_candidates_staged, stage 1: exact
QueryExact ==
  /\ dq.pc = "exact"
  /\ \E stage1 \in QueryItems(store, "exact", SafeLower(dq.q), dq.top_k) :
       dq' = IF StageHit(stage1)
             THEN AfterRetrieval(Called(dq, "exact", stage1), stage1, Staged("exact"))
             ELSE [Called(dq, "exact", stage1) EXCEPT !.pc = "prefix"]
  /\ UNCHANGED <<store, clock, config, wr>>

\* _query_candidates_staged, stage 2: prefix
QueryPrefix ==
  /\ dq.pc = "prefix"
  /\ \E stage2 \in QueryItems(store, "prefix", SafeLower(dq.q), dq.top_k) :
       dq' = IF StageHit(stage2)
             THEN AfterRetrieval(Called(dq, "prefix", stage2), stage2, Staged("prefix"))
             ELSE [Called(dq, "prefix", stage2) EXCEPT !.pc = "contains"]
  /\ UNCHANGED <<store, clock, config, wr>>

\* _query_candidates_staged, stage 3: contains, returned whatever it yields
QueryContains ==
  /\ dq.pc = "contains"
  /\ \E stage3 \in QueryItems(store, "contains", SafeLower(dq.q), dq.top_k) :
       dq' = AfterRetrieval(Called(dq, "contains", stage3), stage3, Staged("contains"))
  /\ UNCHANGED <<store, clock, config, wr>>

\* A mutant of the hydration in which a record that is gone leaves no best match.
HydrateBestNull ==
  /\ dq.pc = "hydrate_best"
  /\ LET d == [dq EXCEPT !.reads = dq.reads + 1]
         agent_id == GetStr(dq.ranked[1].agent, "agent_id")
         best_agent == IF AgentExists(store, agent_id) THEN store[agent_id]
                       ELSE NoneVal
     IN  dq' = BestResponse(d, dq.count, dq.diagnostics, dq.ranked, best_agent)
  /\ UNCHANGED <<store, clock, config, wr>>

\* include_full on the query path: one point read of the best candidate
HydrateBest ==
  /\ dq.pc = "hydrate_best"
  /\ LET d == [dq EXCEPT !.reads = dq.reads + 1]
         agent_id == GetStr(dq.ranked[1].agent, "agent_id")
         best_agent == IF AgentExists(store, agent_id) THEN store[agent_id]
                       ELSE dq.ranked[1].agent
     IN  dq' = BestResponse(d, dq.count, dq.diagnostics, dq.ranked, best_agent)
  /\ UNCHANGED <<store, clock, config, wr>>

\* _hydrate_full_docs on the list path: one point read per step
HydrateList ==
  /\ dq.pc = "hydrate_list"
  /\ LET c == dq.candidates[dq.next]
         agent_id == GetStr(c, "agent_id")
         max_items == Min({dq.top_k, DISCOVERY_HYDRATE_MAX})
         last == dq.next >= Min({max_items, Len(dq.candidates)})
         d == IF agent_id = <<>> THEN dq
              ELSE [dq EXCEPT !.reads = dq.reads + 1,
                              !.out = IF AgentExists(store, agent_id)
                                      THEN Append(dq.out, store[agent_id])
                                      ELSE dq.out]
     IN  dq' = IF last THEN ListResponse(d, d.candidates, d.diagnostics, d.out)
               ELSE [d EXCEPT !.next = dq.next + 1]
  /\ UNCHANGED <<store, clock, config, wr>>

\* the response has been sent
DiscoverReturn ==
  /\ dq.pc = "done"
  /\ dq' = Idle
  /\ UNCHANGED <<store, clock, config, wr>>

\* ------------------------------------------------------------------ discovery inputs
S_o1 == <<"o","1">>
S_o2 == <<"o","2">>
S_BillingBot == <<"B","i","l","l","i","n","g"," ","B","o","t">>
S_finance == <<"f","i","n","a","n","c","e">>
S_support == <<"s","u","p","p","o","r","t">>
S_billing == <<"b","i","l","l","i","n","g">>
S_OPSPadded == <<" ","O","P","S"," ">>
S_p == <<"p">>

DiscoveryPayloads ==
  { [agent_id |-> S_a1, name |-> S_BillingBot,
     roles |-> RolesList(<<S_finance, S_support>>), enabled |-> TRUE],
    [agent_id |-> S_o1, name |-> S_Ops, enabled |-> TRUE],
    [agent_id |-> S_o2, name |-> S_Ops, enabled |-> FALSE] }

DiscoveryIds == {S_a1, S_o1, S_o2}
QueryParams == {<<>>, <<" ">>, S_billing, S_OPSPadded, S_p}
TopParams == {<<>>, <<"0">>, <<"5","0","0">>, <<"x">>}
FlagParams == {<<>>, <<"Y","e","s">>}
ConfiguredTopK == {20, 101}

Init ==
  /\ store = EmptyDict
  /\ clock = 0
  /\ config \in [DISCOVERY_TOP_K : ConfiguredTopK]
  /\ wr = [w \in Writers |-> Idle]
  /\ dq = Idle

Next ==
  \/ \E p \in DiscoveryPayloads : Register(1, REGISTRY_ADMIN_KEY, p)
  \/ \E a \in DiscoveryIds : DeleteAgent(1, REGISTRY_ADMIN_KEY, a)
  \/ WriterReturn(1)
  \/ \E q \in QueryParams, t \in TopParams, d \in FlagParams, f \in FlagParams :
        DiscoverBegin(q, t, d, f)
  \/ QueryList
  \/ QueryExact
  \/ QueryPrefix
  \/ QueryContains
  \/ HydrateBest
  \/ HydrateList
  \/ DiscoverReturn

Spec == Init /\ [][Next]_vars

\* ------------------------------------------------------------------ claims on writes
ShadowKeys == {"name_lc", "agent_id_lc", "appid_lc", "test_lc", "roles_lc"}

\* t is s with leading and trailing whitespace removed and every letter lowercased
IsFoldOf(t, s) ==
  \E lead \in 0..Len(s) :
     /\ lead + Len(t) <= Len(s)
     /\ \A i \in 1..lead : IsSpace(s[i])
     /\ \A i \in (lead + Len(t) + 1)..Len(s) : IsSpace(s[i])
     /\ \A i \in 1..Len(t) : t[i] = LowerChar(s[lead + i])
     /\ t # <<>> => ~IsSpace(t[1]) /\ ~IsSpace(t[Len(t)])

ShadowsOf(doc) ==
  /\ ShadowKeys \subseteq DOMAIN doc
  /\ IsFoldOf(doc["name_lc"], GetStr(doc, "name"))
  /\ IsFoldOf(doc["agent_id_lc"], GetStr(doc, "agent_id"))
  /\ IsFoldOf(doc["appid_lc"], GetStr(doc, "appid"))
  /\ IsFoldOf(doc["test_lc"], GetStr(doc, "test"))
  /\ Has(doc, "roles") /\ doc["roles"].t = "list"
  /\ Len(doc["roles_lc"]) = Len(doc["roles"].v)
  /\ \A i \in 1..Len(doc["roles_lc"]) : IsFoldOf(doc["roles_lc"][i], doc["roles"].v[i])

\* C4 (as claimed): once a record exists for an agent_id, no register or patch
\* changes its stored createdAt.
C4_CreatedAtNeverOverwritten ==
  [][\A a \in (DOMAIN store) \cap (DOMAIN store') :
        store'[a]["createdAt"] = store[a]["createdAt"]]_vars

\* C5: in every reachable store state each stored record's five shadow fields are
\* the trimmed, lowercased transform of its current source fields.
C5_ShadowFieldsConsistent == \A a \in DOMAIN store : ShadowsOf(store[a])

\* C5 witness: record a1 was renamed and given new roles by a patch, its shadows
\* follow, and the shadow value a client sent is not stored.
C5_Witness ==
  /\ S_a1 \in DOMAIN store
  /\ store[S_a1]["name"] = S_Bot /\ store[S_a1]["name_lc"] = <<"b","o","t">>
  /\ store[S_a1]["roles"].v = << <<"D","e","v">> >>
  /\ store[S_a1]["roles_lc"] = << <<"d","e","v">> >>
  /\ store[S_a1]["test"] = S_T1 /\ store[S_a1]["test_lc"] = <<"t","1">>

PatchTouched(patch) == (DOMAIN patch) \cap (PatchScalarFields \cup {"roles"})

\* C6: a patch's replace succeeds whenever the record is present, whatever was
\* written since the patch read it, and stores the patch's own copy: the supplied
\* fields from the patch, every other field as the patch read it.
C6_LastReplaceWins ==
  [][\A w \in Writers :
       (wr[w].pc = "patch_replace" /\ wr'[w] # wr[w]
          /\ AgentExists(store, wr[w].agent_id)) =>
       LET a == wr[w].agent_id
           e == wr[w].existing
           p == wr[w].patch
           d == store'[a]
       IN  /\ wr'[w].status = 200
           /\ wr'[w].agent = d
           /\ DOMAIN d = (DOMAIN e) \cup PatchTouched(p)
           /\ \A f \in PatchTouched(p) \ {"roles"} : d[f] = p[f]
           /\ \A f \in (DOMAIN e) \ (PatchTouched(p) \cup ShadowKeys \cup {"updatedAt"}) :
                 d[f] = e[f]]_vars

\* C6 witness: both patch requests on a1 were answered 200, worker 1's response
\* shows enabled = FALSE, and the stored record is worker 2's document, in which
\* enabled is still TRUE: worker 1's change is lost.
C6_Witness ==
  /\ wr[1].pc = "done" /\ wr[1].op = "patch" /\ wr[1].status = 200
  /\ wr[2].pc = "done" /\ wr[2].op = "patch" /\ wr[2].status = 200
  /\ wr[1].agent["id"] = S_a1 /\ wr[2].agent["id"] = S_a1
  /\ wr[1].agent["enabled"] = FALSE
  /\ S_a1 \in DOMAIN store
  /\ store[S_a1] = wr[2].agent
  /\ store[S_a1]["enabled"] = TRUE
  /\ store[S_a1]["name"] = S_Bot

\* ------------------------------------------------------------------ claims on discovery
StageOrder == <<"exact", "prefix", "contains">>

\* the request has its candidates: it is answering or hydrating
Retrieved(d) == d.pc \in {"done", "hydrate_best", "hydrate_list"}
DiagOf(d) == IF d.pc = "done" THEN d.body.diagnostics ELSE d.diagnostics
CountOf(d) ==
  IF d.pc = "done" THEN d.body.count
  ELSE IF d.pc = "hydrate_best" THEN d.count ELSE Len(d.candidates)
BestScoreOf(d) == IF d.pc = "done" THEN d.body.best_match_score ELSE d.ranked[1].score
BestReasonsOf(d) ==
  IF d.pc = "done" THEN d.body.best_match_reasons ELSE d.ranked[1].reasons
LastCall(d) == d.calls[Len(d.calls)]
Range(f) == {f[i] : i \in DOMAIN f}

\* C1: for a non-empty q the store sees the stage queries in the order exact,
\* prefix, contains; every query before the last returned nothing; the result is
\* that of the last query issued, tagged with its stage; no later stage is queried.
C1_StagedEscalation ==
  (dq.pc # "idle" /\ StrStrip(dq.q_param) # <<>>) =>
     /\ Len(dq.calls) <= 3
     /\ \A i \in 1..Len(dq.calls) : dq.calls[i].stage = StageOrder[i]
     /\ \A i \in 1..(Len(dq.calls) - 1) : dq.calls[i].items = <<>>
     /\ dq.pc = "exact" => dq.calls = <<>>
     /\ dq.pc = "prefix" => Len(dq.calls) = 1 /\ dq.calls[1].items = <<>>
     /\ dq.pc = "contains" => Len(dq.calls) = 2 /\ dq.calls[2].items = <<>>
     /\ dq.pc \notin {"list", "hydrate_list"}
     /\ Retrieved(dq) =>
          /\ Len(dq.calls) >= 1
          /\ DiagOf(dq) = [strategy |-> "staged", stage_used |-> LastCall(dq).stage]
          /\ CountOf(dq) = Len(LastCall(dq).items)
          /\ LastCall(dq).items # <<>> \/ LastCall(dq).stage = "contains"

\* C1 witness: the exact stage returned two records and was the only query sent.
C1_Witness ==
  /\ dq.pc = "done" /\ dq.q_param = S_OPSPadded
  /\ Len(dq.calls) = 1 /\ dq.calls[1].stage = "exact" /\ Len(dq.calls[1].items) = 2
  /\ dq.body.diagnostics.stage_used = "exact"

NameMatches(st, qn) ==
  {a \in DOMAIN st : Has(st[a], "name_lc") /\ st[a]["name_lc"] = qn}

\* a candidate one of whose shadow fields equals qn
ExactCandidate(c, qn) ==
  \/ c["agent_id_lc"] = qn \/ c["name_lc"] = qn \/ c["appid_lc"] = qn
  \/ c["test_lc"] = qn \/ qn \in Range(c["roles_lc"])

\* C2 (as claimed): whenever the exact-stage query runs on a store holding a record
\* whose name_lc equals qn, the exact stage is the stage used and that record is
\* among the candidates returned.
C2_AsClaimed ==
  [][(dq.pc = "exact" /\ dq' # dq) =>
       \A a \in NameMatches(store, SafeLower(dq.q)) :
          /\ Retrieved(dq')
          /\ DiagOf(dq').stage_used = "exact"
          /\ Project(store[a]) \in Range(LastCall(dq').items)]_vars

\* C2 (amended): whenever the exact-stage query runs on a store holding a record
\* whose name_lc equals qn, the exact stage is the stage used, the candidates are
\* min(top_k, m) distinct stored records that each match the exact stage (m the
\* number of such records), and the record is among them whenever m <= top_k.
C2_ExactStageWins ==
  [][(dq.pc = "exact" /\ dq' # dq) =>
       \A a \in NameMatches(store, SafeLower(dq.q)) :
          LET qn == SafeLower(dq.q)
              items == LastCall(dq').items
              m == Cardinality({b \in DOMAIN store : ExactCandidate(store[b], qn)})
          IN  /\ Retrieved(dq')
              /\ DiagOf(dq').stage_used = "exact"
              /\ Len(items) = Min({dq.top_k, m})
              /\ Cardinality(Range(items)) = Len(items)
              /\ \A i \in 1..Len(items) :
                    /\ ExactCandidate(items[i], qn)
                    /\ \E b \in DOMAIN store : items[i] = Project(store[b])
              /\ m <= dq.top_k => Project(store[a]) \in Range(items)]_vars

\* C2 witness: two stored records are named "Ops", the query is " OPS " with
\* top_k = 1, and the exact stage returned one of them.
C2_Witness ==
  /\ dq.pc = "done" /\ dq.q_param = S_OPSPadded /\ dq.top_k = 1
  /\ NameMatches(store, S_ops) = {S_o1, S_o2}
  /\ dq.body.diagnostics.stage_used = "exact"
  /\ Len(dq.calls[1].items) = 1 /\ dq.body.count = 1

\* Scenario A: the store holds the single record a1 "Billing Bot"
ScenarioA ==
  /\ DOMAIN store = {S_a1}
  /\ store[S_a1]["name"] = S_BillingBot
  /\ store[S_a1]["roles"] = RolesList(<<S_finance, S_support>>)
  /\ store[S_a1]["enabled"] = TRUE

\* C3 (as claimed): in Scenario A with q = "billing" the exact stage misses, the
\* prefix stage misses, the contains stage hits with stage_used "contains", score
\* 80 and reasons including "name contains search term" and "agent is enabled".
C3_AsClaimed ==
  [][(ScenarioA /\ dq.pc # "idle" /\ dq.q_param = S_billing /\ dq' # dq) =>
       /\ dq.pc = "exact" => dq'.pc = "prefix"
       /\ dq.pc = "prefix" => dq'.pc = "contains"
       /\ dq.pc = "contains" =>
            /\ Retrieved(dq') /\ DiagOf(dq').stage_used = "contains"
            /\ BestScoreOf(dq') = 80
            /\ {<<"name contains search term">>, <<"agent is enabled">>}
                  \subseteq Range(BestReasonsOf(dq'))]_vars

\* C3 (amended): in Scenario A with q = "billing" the exact stage misses and the
\* prefix stage hits (name_lc "billing bot" starts with "billing"): stage_used is
\* "prefix", the contains query is not sent, the score is 95 (name prefix 85 +
\* enabled 10) and the reasons are "name prefix match", "agent is enabled".
C3_ScenarioA ==
  [][(ScenarioA /\ dq.pc # "idle" /\ dq.q_param = S_billing /\ dq' # dq) =>
       /\ dq.pc = "exact" => dq'.pc = "prefix"
       /\ dq.pc = "prefix" =>
            /\ Retrieved(dq') /\ DiagOf(dq').stage_used = "prefix"
            /\ Len(dq'.calls) = 2 /\ Len(LastCall(dq').items) = 1
            /\ BestScoreOf(dq') = 95
            /\ BestReasonsOf(dq') = << <<"name prefix match">>, <<"agent is enabled">> >>]_vars

\* C3 witness: Scenario A answered for q = "billing" by the prefix stage, score 95.
C3_Witness ==
  /\ ScenarioA /\ wr[1].pc = "idle"
  /\ dq.pc = "done" /\ dq.q_param = S_billing
  /\ dq.body.diagnostics.stage_used = "prefix"
  /\ dq.body.best_match_score = 95
  /\ dq.body.best_match["agent_id"] = S_a1

\* C7 (as claimed): the top_k of every discovery request is in 1..100.
C7_TopKInRange == dq.pc # "idle" => dq.top_k \in 1..100

\* C8: a request whose q is empty or whitespace-only sends only the unfiltered
\* scan, answers with strategy "list" / stage_used "all", and neither the Ranker
\* nor the Scorer runs.
C8_EmptyQueryLists ==
  (dq.pc # "idle" /\ StrStrip(dq.q_param) = <<>>) =>
     /\ dq.pc \in {"list", "hydrate_list", "done"}
     /\ Len(dq.calls) <= 1
     /\ \A i \in 1..Len(dq.calls) : dq.calls[i].stage = "all"
     /\ Retrieved(dq) =>
          /\ Len(dq.calls) = 1
          /\ DiagOf(dq) = [strategy |-> "list", stage_used |-> "all"]
     /\ dq.pc = "done" => dq.scored = 0 /\ dq.ranked = FALSE

\* C8 witness: a whitespace-only q answered from a store of two or more records.
C8_Witness ==
  /\ dq.pc = "done" /\ dq.q_param = <<" ">>
  /\ dq.body.count >= 2 /\ dq.scored = 0
  /\ dq.body.diagnostics.strategy = "list"

\* C9: every query returns at most top_k records, the response count is the
\* number of candidates retrieved, and the unfiltered scan of a store of N
\* records returns exactly min(top_k, N) of them.
C9_TopKCap ==
  [][/\ dq'.pc # "idle" =>
          \A i \in 1..Len(dq'.calls) : Len(dq'.calls[i].items) <= dq'.top_k
     /\ (Retrieved(dq') /\ dq'.calls # <<>>) =>
          CountOf(dq') = Len(LastCall(dq').items)
     /\ (dq.pc = "list" /\ dq' # dq) =>
          /\ Len(LastCall(dq').items) = Min({dq.top_k, Cardinality(DOMAIN store)})
          /\ CountOf(dq') = Min({dq.top_k, Cardinality(DOMAIN store)})]_vars

\* C9 witness: top_k = 1, three stored records, empty q: exactly one returned.
C9_Witness ==
  /\ dq.pc = "done" /\ dq.q_param = <<>> /\ dq.top_k = 1
  /\ Cardinality(DOMAIN store) = 3 /\ wr[1].pc = "idle"
  /\ dq.body.count = 1 /\ Len(dq.body.agents) = 1

\* ------------------------------------------------------------------ the scorer alone
S_OpsBot == <<"O","p","s"," ","B","o","t">>
S_DevOps == <<"D","e","v","O","p","s">>
S_ops1 == <<"o","p","s","1">>
S_xops == <<"x","o","p","s">>
S_opsRead == <<"o","p","s","-","r">>
S_opsWrite == <<"o","p","s","-","w">>
S_opsAdmin == <<"o","p","s","-","a">>
S_devops == <<"d","e","v","o","p","s">>

\* the values a scalar field takes: exact, prefix, contains and no match for "ops"
ScoreNames == {S_Ops, S_OpsBot, S_DevOps, S_Bot}
ScoreIds == {S_ops, S_ops1, S_xops, S_a1}
\* <<>> stands for a payload without the key
ScoreAppids == {<<>>, S_OPSPadded, S_ops1, S_b2}
ScoreTests == {<<>>, S_ops, S_OpsBot, S_xops}
ScoreRoleLists ==
  { <<>>, <<S_finance, S_ops>>, <<S_opsRead, S_opsWrite, S_opsAdmin>>,
    <<S_devops, S_xops, S_DevOps>>, <<S_xops, S_opsRead>>, <<S_devops>>,
    <<S_opsRead, S_ops>> }
ScoreQueries == {S_ops, S_OPSPadded, <<" ">>}

\* register payloads over the field values above
ScorePayloads ==
  { LET p0 == [agent_id |-> i, name |-> n, roles |-> RolesList(r), enabled |-> e]
        p1 == IF a = <<>> THEN p0 ELSE Put(p0, "appid", a)
    IN  IF t = <<>> THEN p1 ELSE Put(p1, "test", t) :
    n \in ScoreNames, i \in ScoreIds, a \in ScoreAppids, t \in ScoreTests,
    r \in ScoreRoleLists, e \in BOOLEAN }

\* a candidate as the retriever hands it to the scorer, and a query
InitScore ==
  /\ store = EmptyDict
  /\ clock = 0
  /\ config = [DISCOVERY_TOP_K |-> 20]
  /\ wr = [w \in Writers |-> Idle]
  /\ dq \in {[pc |-> "score", agent |-> Project(UpsertDoc(p, 0)), q |-> q] :
               p \in ScorePayloads, q \in ScoreQueries}

\* _score_agent_match(agent, q)
ScoreStep ==
  /\ dq.pc = "score"
  /\ dq' = [pc |-> "scored", agent |-> dq.agent, q |-> dq.q,
            result |-> ScoreAgentMatch(dq.agent, dq.q)]
  /\ UNCHANGED <<store, clock, config, wr>>

NextScore == ScoreStep

SpecScore == InitScore /\ [][NextScore]_vars

\* the weights of the tiers of `field` that qn matches
MatchingTiers(field, qn, wExact, wPrefix, wContains) ==
  (IF field = qn THEN {wExact} ELSE {})
  \cup (IF StartsWith(field, qn) THEN {wPrefix} ELSE {})
  \cup (IF StrContains(field, qn) THEN {wContains} ELSE {})

\* the weight of the highest matching tier, 0 when no tier matches
HighestTier(field, qn, wExact, wPrefix, wContains) ==
  Max({0} \cup MatchingTiers(field, qn, wExact, wPrefix, wContains))

\* the score the weight table gives a candidate
TableScore(agent, qn) ==
  HighestTier(agent["name_lc"], qn, 120, 85, 70)
  + HighestTier(agent["agent_id_lc"], qn, 115, 80, 65)
  + HighestTier(agent["appid_lc"], qn, 95, 70, 55)
  + (IF agent["test_lc"] # <<>>
     THEN HighestTier(agent["test_lc"], qn, 85, 55, 40) ELSE 0)
  + ScoreRoleRule(agent["roles_lc"], qn).score
  + (IF agent["enabled"] THEN 10 ELSE 0)

\* C10: for a non-empty qn the score of a candidate is the sum, over name,
\* agent_id, appid and a non-empty test, of the weight of the field's highest
\* matching tier (0 when the field does not contain qn), plus the role and the
\* enabled contributions, and it is an integer >= 0.
C10_HighestTierPerField ==
  (dq.pc = "scored" /\ SafeLower(dq.q) # <<>>) =>
     /\ dq.result.score = TableScore(dq.agent, SafeLower(dq.q))
     /\ dq.result.score \in Nat

\* C10 witness: q = " OPS " scored against a candidate whose name matches exactly
\* (120), agent_id "ops1" by prefix (80), appid "ops1" by prefix (70), test
\* "xops" by containment (40), no role, enabled (10): 320.
C10_Witness ==
  /\ dq.pc = "scored"
  /\ dq.q = S_OPSPadded
  /\ dq.agent["name"] = S_Ops
  /\ dq.agent["agent_id"] = S_ops1
  /\ dq.agent["appid"] = S_ops1
  /\ dq.agent["test_lc"] = S_xops
  /\ dq.agent["roles_lc"] = <<>>
  /\ dq.agent["enabled"]
  /\ dq.result.score = 120 + 80 + 70 + 40 + 10

\* the scalar part of the weight table
ScalarScore(agent, qn) ==
  HighestTier(agent["name_lc"], qn, 120, 85, 70)
  + HighestTier(agent["agent_id_lc"], qn, 115, 80, 65)
  + HighestTier(agent["appid_lc"], qn, 95, 70, 55)
  + (IF agent["test_lc"] # <<>>
     THEN HighestTier(agent["test_lc"], qn, 85, 55, 40) ELSE 0)

\* the role contribution by counting the roles that equal, start with, contain qn
RoleContribution(roles, qn) ==
  LET nExact == Cardinality({i \in 1..Len(roles) : roles[i] = qn})
      nPrefix == Cardinality({i \in 1..Len(roles) : StartsWith(roles[i], qn)})
      nContains == Cardinality({i \in 1..Len(roles) : StrContains(roles[i], qn)})
  IN  IF nExact > 0 THEN 80
      ELSE IF nPrefix > 0 THEN Min({25 * nPrefix, 60})
      ELSE IF nContains > 0 THEN Min({20 * nContains, 50})
      ELSE 0

RoleLabels == {"exact role match: ", "role prefix match: ", "matched role(s): "}

RoleReasons(reasons) == {k \in 1..Len(reasons) : reasons[k][1] \in RoleLabels}

\* C11: for a non-empty qn the role contribution is 80 for an exact role, else
\* min(25 x prefix-matching roles, 60), else min(20 x containing roles, 50), else
\* 0; it is added on top of the scalar and enabled contributions whatever they
\* are, and exactly one role reason is appended when it is non-zero, none otherwise.
C11_RoleContribution ==
  (dq.pc = "scored" /\ SafeLower(dq.q) # <<>>) =>
     LET qn == SafeLower(dq.q)
         role == RoleContribution(dq.agent["roles_lc"], qn)
     IN  /\ dq.result.score = ScalarScore(dq.agent, qn) + role
                              + (IF dq.agent["enabled"] THEN 10 ELSE 0)
         /\ Cardinality(RoleReasons(dq.result.reasons)) = (IF role > 0 THEN 1 ELSE 0)

\* C11 witness: three roles start with "ops" and none equals it, the name matches
\* exactly as well: the role rule adds min(75, 60) = 60 to the name's 120.
C11_Witness ==
  /\ dq.pc = "scored" /\ dq.q = S_ops
  /\ dq.agent["roles_lc"] = <<S_opsRead, S_opsWrite, S_opsAdmin>>
  /\ dq.agent["name_lc"] = S_ops
  /\ dq.agent["agent_id_lc"] = S_a1 /\ dq.agent["appid_lc"] = S_a1
  /\ dq.agent["test_lc"] = <<>> /\ dq.agent["enabled"]
  /\ dq.result.score = 120 + 60 + 10

\* the reason texts of one scalar field
FieldLabels(label) ==
  {"exact " \o label \o " match", label \o " prefix match",
   label \o " contains search term"}

EnabledLabels == {"agent is enabled", "agent is disabled"}

\* the signals in the order the scoring contract lists them
SignalOrder ==
  <<FieldLabels("name"), FieldLabels("agent_id"), FieldLabels("appid"),
    FieldLabels("test"), RoleLabels, EnabledLabels>>

\* the position in `order` of the signal a reason belongs to
SignalOf(reason, order) == CHOOSE k \in 1..Len(order) : reason[1] \in order[k]

\* the signals that fire for a candidate, as positions in SignalOrder
FiredSignals(agent, qn) ==
  {k \in 1..6 :
     CASE k = 1 -> StrContains(agent["name_lc"], qn)
       [] k = 2 -> StrContains(agent["agent_id_lc"], qn)
       [] k = 3 -> StrContains(agent["appid_lc"], qn)
       [] k = 4 -> StrContains(agent["test_lc"], qn)
       [] k = 5 -> RoleContribution(agent["roles_lc"], qn) > 0
       [] k = 6 -> TRUE}

\* C12 (as claimed): the reasons hold exactly one entry per signal that fired, in
\* the order name, agent_id, appid, test, role, enabled/disabled.
C12_ReasonsInListedOrder ==
  (dq.pc = "scored" /\ SafeLower(dq.q) # <<>>) =>
     LET rs == dq.result.reasons
     IN  /\ \A k \in 1..Len(rs) : \E j \in 1..6 : rs[k][1] \in SignalOrder[j]
         /\ {SignalOf(rs[k], SignalOrder) : k \in 1..Len(rs)}
              = FiredSignals(dq.agent, SafeLower(dq.q))
         /\ \A k \in 1..(Len(rs) - 1) :
              SignalOf(rs[k], SignalOrder) < SignalOf(rs[k + 1], SignalOrder)

\* ------------------------------------------------------------------ the ranker alone
\* candidates that all contain "ops": Scenario B's pair (o1 enabled, o2 disabled),
\* o1 disabled, a record on which six signals fire, a name-prefix record, and a
\* record whose name a patch has emptied
RankCandidatePool ==
  { Project(UpsertDoc([agent_id |-> S_o1, name |-> S_Ops, enabled |-> TRUE], 0)),
    Project(UpsertDoc([agent_id |-> S_o2, name |-> S_Ops, enabled |-> FALSE], 0)),
    Project(UpsertDoc([agent_id |-> S_o1, name |-> S_Ops, enabled |-> FALSE], 0)),
    Project(UpsertDoc([agent_id |-> S_ops1, name |-> S_Ops, test |-> S_xops,
                       roles |-> RolesList(<<S_ops>>)], 0)),
    Project(UpsertDoc([agent_id |-> S_a1, name |-> S_OpsBot], 0)),
    Project(PatchMerge(UpsertDoc([agent_id |-> S_b2, name |-> S_Bot,
                                  roles |-> RolesList(<<S_ops>>)], 0),
                       [name |-> <<>>], S_b2, 0)) }

MaxCandidates == 3

CandidateSeqs ==
  UNION {[1..n -> RankCandidatePool] : n \in 0..MaxCandidates}

\* registry_discover holding what the retriever's last stage returned
InitRank ==
  /\ store = EmptyDict
  /\ clock = 0
  /\ config = [DISCOVERY_TOP_K |-> 20]
  /\ wr = [w \in Writers |-> Idle]
  /\ dq \in {[pc |-> "rank", q_param |-> qp, q |-> DiscoverQ(qp), debug |-> dbg,
              include_full |-> FALSE, top_k |-> 20, reads |-> 0,
              calls |-> <<[stage |-> "contains", items |-> cs]>>] :
               qp \in {S_ops, S_OPSPadded}, dbg \in BOOLEAN, cs \in CandidateSeqs}

\* registry_discover: rank the candidates and build the response
RankStep ==
  /\ dq.pc = "rank"
  /\ dq' = AfterRetrieval(dq, dq.calls[1].items, Staged("contains"))
  /\ UNCHANGED <<store, clock, config, wr>>

NextRank == RankStep

SpecRank == InitRank /\ [][NextRank]_vars

KeyFields == {"id", "agent_id", "agent_id_lc", "appid", "appid_lc"}

Without(c, fields) == [k \in (DOMAIN c) \ fields |-> c[k]]

\* c1 is enabled, c2 is disabled, and they agree on every other field; records
\* stored under different keys count as well when qn occurs in no key field
DifferOnlyInEnabled(c1, c2, qn) ==
  /\ c1["enabled"] /\ ~c2["enabled"]
  /\ \/ Without(c1, {"enabled"}) = Without(c2, {"enabled"})
     \/ /\ Without(c1, KeyFields \cup {"enabled"}) = Without(c2, KeyFields \cup {"enabled"})
        /\ \A c \in {c1, c2} : ~StrContains(c["agent_id_lc"], qn)
                               /\ ~StrContains(c["appid_lc"], qn)

PositionsOf(ranked, c) == {k \in 1..Len(ranked) : ranked[k].agent = c}

\* C13: of two candidates that differ only in the enabled flag, the enabled one
\* scores exactly 10 more, carries the reason "agent is enabled" where the other
\* carries "agent is disabled", and is ranked before it wherever the two stood in
\* the candidate sequence.
C13_EnabledRanksFirst ==
  (dq.pc = "done" /\ Has(dq.body, "candidates_ranked")) =>
     LET cs == dq.calls[1].items
         rk == dq.body["candidates_ranked"]
         qn == SafeLower(dq.q_param)
     IN  \A i, j \in 1..Len(cs) :
           DifferOnlyInEnabled(cs[i], cs[j], qn) =>
             /\ PositionsOf(rk, cs[i]) # {} /\ PositionsOf(rk, cs[j]) # {}
             /\ \A k \in PositionsOf(rk, cs[i]), l \in PositionsOf(rk, cs[j]) :
                  /\ rk[k].score = rk[l].score + 10
                  /\ k < l
                  /\ <<"agent is enabled">> \in Range(rk[k].reasons)
                  /\ <<"agent is disabled">> \in Range(rk[l].reasons)
                  /\ <<"agent is disabled">> \notin Range(rk[k].reasons)
                  /\ <<"agent is enabled">> \notin Range(rk[l].reasons)

\* C13 witness: Scenario B with the disabled record first in the candidate
\* sequence: q = "ops", candidates o2 (disabled), o1 (enabled), ranked o1 130, o2 120.
C13_Witness ==
  /\ dq.pc = "done" /\ dq.q_param = S_ops /\ Has(dq.body, "candidates_ranked")
  /\ Len(dq.calls[1].items) = 2
  /\ dq.calls[1].items[1]["agent_id"] = S_o2 /\ ~dq.calls[1].items[1]["enabled"]
  /\ dq.calls[1].items[2]["agent_id"] = S_o1 /\ dq.calls[1].items[2]["enabled"]
  /\ dq.body["candidates_ranked"][1].agent["agent_id"] = S_o1
  /\ dq.body["candidates_ranked"][1].score = 130
  /\ dq.body["candidates_ranked"][2].score = 120

\* the bijections of 1..n
PermutationsOf(n) ==
  {p \in [1..n -> 1..n] : \A i, j \in 1..n : i # j => p[i] # p[j]}

\* C14: the ranked sequence is a permutation of the candidates, one entry each
\* with the candidate's score, in non-increasing score order, equal scores in
\* input order; best_match is its first element: the earliest candidate among
\* those of maximal score, and best_match_score is that maximum.
C14_StableDescendingRank ==
  (dq.pc = "done" /\ dq.calls[1].items # <<>>) =>
     LET cs == dq.calls[1].items
         n == Len(cs)
         qn == SafeLower(dq.q_param)
         mx == Max({TableScore(cs[i], qn) : i \in 1..n})
         first == Min({i \in 1..n : TableScore(cs[i], qn) = mx})
     IN  /\ dq.body["best_match"] = cs[first]
         /\ dq.body["best_match_score"] = mx
         /\ Has(dq.body, "candidates_ranked") =>
              LET rk == dq.body["candidates_ranked"]
              IN  /\ Len(rk) = n
                  /\ rk[1].agent = dq.body["best_match"]
                  /\ \E p \in PermutationsOf(n) :
                       /\ \A k \in 1..n :
                            /\ rk[k].agent = cs[p[k]]
                            /\ rk[k].score = TableScore(cs[p[k]], qn)
                       /\ \A k \in 1..(n - 1) :
                            /\ rk[k].score >= rk[k + 1].score
                            /\ rk[k].score = rk[k + 1].score => p[k] < p[k + 1]

\* C14 witness: candidates o2 (disabled, 120), a1 "Ops Bot" (95), o1 disabled
\* (120): the two records of score 120 keep their input order before a1.
C14_Witness ==
  /\ dq.pc = "done" /\ Has(dq.body, "candidates_ranked")
  /\ Len(dq.calls[1].items) = 3
  /\ dq.calls[1].items[1]["agent_id"] = S_o2
  /\ dq.calls[1].items[2]["agent_id"] = S_a1
  /\ dq.calls[1].items[3]["agent_id"] = S_o1 /\ ~dq.calls[1].items[3]["enabled"]
  /\ dq.body["candidates_ranked"][1].agent["agent_id"] = S_o2
  /\ dq.body["candidates_ranked"][2].agent["agent_id"] = S_o1
  /\ dq.body["candidates_ranked"][3].agent["agent_id"] = S_a1
  /\ dq.body["candidates_ranked"][1].score = dq.body["candidates_ranked"][2].score
  /\ dq.body["best_match"]["agent_id"] = S_o2

\* C15: for a non-empty q, an empty candidate set is answered with count 0,
\* best_match null, best_match_score 0, no reasons and the justification
\* "No agents matched '<q>'."; otherwise the justification carries q, the best
\* agent's name (its agent_id when the name is empty), its agent_id, its score and
\* the first min(4, number of reasons) reasons of the best match in their order.
C15_Justification ==
  dq.pc = "done" =>
     LET cs == dq.calls[1].items
         qn == SafeLower(dq.q_param)
         body == dq.body
     IN  IF cs = <<>>
         THEN /\ body["count"] = 0
              /\ body["best_match"] = NoneVal
              /\ body["best_match_score"] = 0
              /\ body["best_match_reasons"] = <<>>
              /\ body["justification"] = [no_match |-> StrStrip(dq.q_param)]
         ELSE LET mx == Max({TableScore(cs[i], qn) : i \in 1..Len(cs)})
                  best == cs[Min({i \in 1..Len(cs) : TableScore(cs[i], qn) = mx})]
                  j == body["justification"]
                  rs == body["best_match_reasons"]
              IN  /\ body["count"] = Len(cs)
                  /\ DOMAIN j = {"search", "name_or_id", "agent_id", "score", "reasons"}
                  /\ j.search = StrStrip(dq.q_param)
                  /\ j.name_or_id = (IF best["name"] # <<>> THEN best["name"]
                                     ELSE best["agent_id"])
                  /\ j.agent_id = best["agent_id"]
                  /\ j.score = mx
                  /\ Len(j.reasons) = Min({4, Len(rs)})
                  /\ \A k \in 1..Len(j.reasons) : j.reasons[k] = rs[k]
                  /\ Has(body, "candidates_ranked") =>
                       rs = body["candidates_ranked"][1].reasons

\* C15 witness: the best match is "ops1", on which six signals fire: the
\* justification names "Ops", agent_id ops1, score 425 and the first four reasons.
C15_Witness ==
  /\ dq.pc = "done" /\ dq.q_param = S_OPSPadded
  /\ dq.body["best_match"] # NoneVal
  /\ dq.body["best_match"]["agent_id"] = S_ops1
  /\ Len(dq.body["best_match_reasons"]) = 6
  /\ dq.body["justification"].name_or_id = S_Ops
  /\ dq.body["justification"].score = 120 + 80 + 70 + 80 + 40 + 10
  /\ Len(dq.body["justification"].reasons) = 4
  /\ dq.body["justification"].reasons[4] = <<"exact role match: ", S_ops>>

\* C15, a second case: the best match has an empty name and is named by its agent_id
C15_WitnessNoName ==
  /\ dq.pc = "done"
  /\ dq.body["best_match"] # NoneVal
  /\ dq.body["best_match"]["name"] = <<>>
  /\ dq.body["justification"].name_or_id = S_b2

\* ------------------------------------------------------------------ the hydrator alone
S_endpoint == <<"h","t","t","p">>

\* register payloads with a field the search projection leaves out; o1 has a
\* second payload, so a re-registration changes the stored document
HydratePayloads ==
  { [agent_id |-> S_a1, name |-> S_BillingBot, endpoint |-> S_endpoint],
    [agent_id |-> S_o1, name |-> S_Ops, endpoint |-> S_endpoint],
    [agent_id |-> S_o2, name |-> S_Ops, enabled |-> FALSE, endpoint |-> S_endpoint],
    [agent_id |-> S_o1, name |-> S_Bot, endpoint |-> S_endpoint] }

\* the store the candidates were retrieved from
HydrateStore ==
  [a \in DiscoveryIds |->
     UpsertDoc(CHOOSE p \in HydratePayloads :
                 p.agent_id = a /\ (a = S_o1 => p.name = S_Ops), 0)]

MaxItems == 3

\* what a query returned: distinct stored records, projected, in any order
HydrateCandidates ==
  UNION {{[i \in 1..n |-> Project(HydrateStore[ks[i]])] :
            ks \in {f \in [1..n -> DiscoveryIds] :
                      \A i, j \in 1..n : i # j => f[i] # f[j]}} :
         n \in 0..Cardinality(DiscoveryIds)}

InitHydrate ==
  /\ store = HydrateStore
  /\ clock = 0
  /\ config = [DISCOVERY_TOP_K |-> 20]
  /\ wr = [w \in Writers |-> Idle]
  /\ dq \in {[pc |-> "hydrate", candidates |-> cs, max_items |-> m,
              out |-> <<>>, next |-> 1, reads |-> 0] :
               cs \in HydrateCandidates, m \in 0..MaxItems}

\* A mutant of the slice that hydrates every candidate.
HydrateLimitAll(candidates, max_items) == Len(candidates)
\* candidates[:max_items]: how many candidates the loop visits
HydrateLimit(candidates, max_items) == Min({max_items, Len(candidates)})

\* _hydrate_full_docs(candidates, max_items): one iteration of the loop (one
\* point read), or the return once the slice is exhausted
HydrateDocs ==
  /\ dq.pc = "hydrate"
  /\ IF dq.next > HydrateLimit(dq.candidates, dq.max_items)
     THEN dq' = [dq EXCEPT !.pc = "hydrated"]
     ELSE LET agent_id == GetStr(dq.candidates[dq.next], "agent_id")
          IN  dq' = IF agent_id = <<>> THEN [dq EXCEPT !.next = dq.next + 1]
                    ELSE [dq EXCEPT !.next = dq.next + 1,
                                    !.reads = dq.reads + 1,
                                    !.out = IF AgentExists(store, agent_id)
                                            THEN Append(dq.out, store[agent_id])
                                            ELSE dq.out]
  /\ UNCHANGED <<store, clock, config, wr>>

NextHydrate ==
  \/ HydrateDocs
  \/ \E p \in HydratePayloads : Register(1, REGISTRY_ADMIN_KEY, p)
  \/ \E a \in DiscoveryIds : DeleteAgent(1, REGISTRY_ADMIN_KEY, a)
  \/ WriterReturn(1)

SpecHydrate == InitHydrate /\ [][NextHydrate]_vars

\* the position of the candidate with this agent_id
CandidatePos(cs, agent_id) == CHOOSE i \in 1..Len(cs) : cs[i]["agent_id"] = agent_id

\* C16: the hydrator visits the first min(max_items, n) candidates in order with
\* one point read each, appends the document stored at that moment when there
\* is one and skips the candidate when there is none, so it reads at most
\* max_items documents and returns at most min(max_items, n), in candidate order.
C16_HydrateSkipsMissing ==
  [][(dq.pc = "hydrate" /\ dq' # dq) =>
       LET cs == dq.candidates
           limit == Min({dq.max_items, Len(cs)})
       IN  /\ dq.next > limit =>
                dq' = [dq EXCEPT !.pc = "hydrated"]
           /\ dq.next <= limit =>
                LET agent_id == cs[dq.next]["agent_id"]
                IN  /\ dq'.pc = "hydrate"
                    /\ dq'.reads = dq.reads + 1
                    /\ agent_id \in DOMAIN store =>
                         dq'.out = Append(dq.out, store[agent_id])
                    /\ agent_id \notin DOMAIN store => dq'.out = dq.out
           /\ dq'.reads <= dq.max_items
           /\ Len(dq'.out) <= Min({dq.max_items, Len(cs)})
           /\ \A k, l \in 1..Len(dq'.out) :
                k < l => CandidatePos(cs, dq'.out[k]["agent_id"])
                           < CandidatePos(cs, dq'.out[l]["agent_id"])]_vars

\* C16 witness: three candidates, max_items = 2; the first was deleted before its
\* read and is skipped, the second is returned as the full document, the third is
\* never read.
C16_Witness ==
  /\ dq.pc = "hydrated" /\ Len(dq.candidates) = 3 /\ dq.max_items = 2
  /\ dq.reads = 2 /\ Len(dq.out) = 1
  /\ dq.candidates[1]["agent_id"] \notin DOMAIN store
  /\ dq.out[1]["agent_id"] = dq.candidates[2]["agent_id"]
  /\ Has(dq.out[1], "endpoint") /\ ~Has(dq.candidates[2], "endpoint")

\* ------------------------------------------------------------------ claims on writes, continued
\* the shadow fields derived from the fields a patch supplies
ShadowOfTouched(patch) ==
  {f \o "_lc" : f \in PatchTouched(patch) \ {"enabled"}}

\* the keys on which documents d and e differ
ChangedKeys(d, e) ==
  ((DOMAIN d) \ (DOMAIN e)) \cup ((DOMAIN e) \ (DOMAIN d))
  \cup {f \in (DOMAIN d) \cap (DOMAIN e) : d[f] # e[f]}

\* C17 (as claimed): the document a patch stores differs from the one it read
\* only in the fields it supplies among name, enabled, appid, test and roles and
\* in updatedAt; every other field is unchanged.
C17_AsClaimed ==
  [][\A w \in Writers :
       (wr[w].pc = "patch_replace" /\ wr'[w].pc = "done" /\ wr'[w].status = 200) =>
          ChangedKeys(store'[wr[w].agent_id], wr[w].existing)
             \subseteq PatchTouched(wr[w].patch) \cup {"updatedAt"}]_vars

\* C17 (amended): the document a patch stores differs from the one it read only
\* in the fields it supplies among name, enabled, appid, test and roles, in the
\* shadow fields of those supplied fields, and in updatedAt, which is the time of
\* the patch; agent_id, id and createdAt stay as read even when the patch body
\* carries them; a patch supplying only enabled changes enabled and updatedAt only.
C17_PatchFrame ==
  [][\A w \in Writers :
       (wr[w].pc = "patch_replace" /\ wr'[w].pc = "done" /\ wr'[w].status = 200) =>
          LET e == wr[w].existing
              p == wr[w].patch
              d == store'[wr[w].agent_id]
          IN  /\ ChangedKeys(d, e) \subseteq
                   PatchTouched(p) \cup ShadowOfTouched(p) \cup {"updatedAt"}
              /\ d["updatedAt"] = clock
              /\ \A f \in {"id", "agent_id", "createdAt"} : Has(e, f) /\ d[f] = e[f]
              /\ \A f \in PatchTouched(p) \ {"roles"} : d[f] = p[f]
              /\ PatchTouched(p) = {"enabled"} =>
                   /\ ChangedKeys(d, e) \subseteq {"enabled", "updatedAt"}
                   /\ \A f \in {"name", "roles", "createdAt"} \cup ShadowKeys :
                        Has(e, f) /\ d[f] = e[f]]_vars

\* C17 witness: a1, registered at time 0, was patched at time 1 by a body that
\* supplies enabled (and an agent_id, a createdAt and a name_lc, all ignored):
\* enabled is FALSE, updatedAt 1, createdAt 0, the key and the shadows as before.
C17_Witness ==
  /\ wr[1].pc = "done" /\ wr[1].op = "patch" /\ wr[1].status = 200
  /\ S_a1 \in DOMAIN store /\ wr[1].agent = store[S_a1]
  /\ store[S_a1]["enabled"] = FALSE
  /\ store[S_a1]["updatedAt"] = 1 /\ store[S_a1]["createdAt"] = 0
  /\ store[S_a1]["agent_id"] = S_a1 /\ store[S_a1]["id"] = S_a1
  /\ store[S_a1]["name"] = S_OpsPadded /\ store[S_a1]["name_lc"] = S_ops

\* the keys _agent_upsert sets whatever the payload holds
UpsertKeys ==
  {"id", "agent_id", "appid", "name", "roles", "enabled", "createdAt", "updatedAt"}

\* d is the document derived from payload p at time now and from nothing else
RegisteredFrom(d, p, now) ==
  LET key == IF Has(p, "agent_id") /\ p["agent_id"] # <<>> THEN p["agent_id"]
             ELSE p["appid"]
  IN  /\ DOMAIN d = (DOMAIN p) \cup UpsertKeys \cup ShadowKeys
      /\ d["id"] = key /\ d["agent_id"] = key
      /\ d["appid"] = (IF Has(p, "appid") THEN p["appid"] ELSE key)
      /\ d["name"] = p["name"]
      /\ d["enabled"] = (IF Has(p, "enabled") THEN p["enabled"] ELSE TRUE)
      /\ d["createdAt"] = (IF Has(p, "createdAt") THEN p["createdAt"] ELSE now)
      /\ d["updatedAt"] = now
      /\ d["roles"] = NormalizeRolesOf(p)
      /\ ShadowsOf(d)
      /\ \A f \in (DOMAIN p) \ (UpsertKeys \cup ShadowKeys) : d[f] = p[f]

\* C18: a registration for an agent_id that already has a record stores exactly
\* the document derived from the new payload (its fields, the defaults, the
\* timestamps, the shadow fields): no field or value of the previous document
\* that the payload does not carry is left.
C18_RegisterReplacesWhole ==
  [][\A a \in DOMAIN store :
       (wr[1].pc = "idle" /\ wr'[1].pc = "done" /\ wr'[1].op = "register"
          /\ wr'[1].status = 200 /\ wr'[1].agent_id = a) =>
       /\ a \in DOMAIN store'
       /\ \E p \in WritePayloads :
            /\ UpsertValid(p)
            /\ RegisteredFrom(store'[a], p, clock)
       /\ \A f \in (DOMAIN store[a]) \ (UpsertKeys \cup ShadowKeys) :
            Has(store'[a], f) => \E p \in WritePayloads :
               Has(p, f) /\ UpsertValid(p) /\ UpsertAgentId(p) = a]_vars

\* C18 witness: a patch had given a1 a test field, the name "Bot" and new roles
\* at time 0 (worker 2 still holds its 200 response); the registration of a1 at
\* time 1 left no test field, and name and roles are the payload's again.
C18_Witness ==
  /\ wr[2].pc = "done" /\ wr[2].op = "patch" /\ wr[2].status = 200
  /\ wr[2].agent["id"] = S_a1 /\ Has(wr[2].agent, "test")
  /\ wr[2].agent["updatedAt"] = 0
  /\ wr[1].pc = "done" /\ wr[1].op = "register" /\ wr[1].status = 200
  /\ wr[1].agent_id = S_a1
  /\ S_a1 \in DOMAIN store
  /\ ~Has(store[S_a1], "test") /\ store[S_a1]["test_lc"] = <<>>
  /\ store[S_a1]["name"] = S_OpsPadded
  /\ store[S_a1]["updatedAt"] = 1

\* C19: every stored record's agent_id is non-empty and is its storage key (its
\* id and its partition key), and no register or patch step changes the agent_id
\* of a record that exists before and after it, whatever agent_id or id the
\* patch body carries.
C19_AgentIdIsKey ==
  [][\A a \in DOMAIN store' :
       /\ a # <<>>
       /\ store'[a]["id"] = a
       /\ store'[a]["agent_id"] = a
       /\ a \in DOMAIN store => store'[a]["agent_id"] = store[a]["agent_id"]]_vars

\* C19 witness: a1 was patched with a body carrying agent_id "zzz" and answered
\* 200; the stored record is still keyed and named a1.
C19_Witness ==
  /\ {S_a1, S_b2} \subseteq DOMAIN store
  /\ \E w \in Writers :
       /\ wr[w].pc = "done" /\ wr[w].op = "patch" /\ wr[w].status = 200
       /\ wr[w].agent["enabled"] = FALSE /\ wr[w].agent = store[S_a1]
  /\ store[S_a1]["agent_id"] = S_a1 /\ store[S_a1]["id"] = S_a1
  /\ store[S_a1]["agent_id_lc"] = S_a1
  /\ store[S_b2]["agent_id"] = S_b2

\* s has a character that is not whitespace
NotBlank(s) == \E i \in 1..Len(s) : ~IsSpace(s[i])

\* C20: in every reachable store state no stored record's roles or roles_lc
\* holds an empty or whitespace-only entry, whichever list or comma-separated
\* string the register and patch requests carried.
C20_NoBlankRoles ==
  \A a \in DOMAIN store :
     /\ Has(store[a], "roles") /\ store[a]["roles"].t = "list"
     /\ \A i \in 1..Len(store[a]["roles"].v) : NotBlank(store[a]["roles"].v[i])
     /\ Has(store[a], "roles_lc")
     /\ \A i \in 1..Len(store[a]["roles_lc"]) : NotBlank(store[a]["roles_lc"][i])

\* C20 witness: a1 was registered with roles "Fin, ,ops", whose middle piece is
\* blank: two roles are stored.
C20_Witness ==
  /\ wr[1].pc = "done" /\ wr[1].op = "register" /\ wr[1].status = 200
  /\ wr[1].agent_id = S_a1 /\ S_a1 \in DOMAIN store
  /\ store[S_a1]["roles"] = RolesList(<< <<"F","i","n">>, S_ops >>)
  /\ store[S_a1]["roles_lc"] = << <<"f","i","n">>, S_ops >>

\* ------------------------------------------------------------------ the normaliser alone
\* <<>> stands for a document without the key
NormalizeNames == {<<>>, S_OpsPadded, S_Bot}
NormalizeIds == {<<>>, S_a1}
NormalizeAppids == {<<>>, S_OPSPadded}
NormalizeTests == {<<>>, S_T1}
NormalizeShadows == {<<>>, S_zzz}
\* [t |-> "none"] stands for a document without roles
NormalizeRoleValues ==
  {[t |-> "none"], RolesList(<<S_Dev, S_Ops>>), RolesStr(S_RolesCsv)}

PutIf(d, k, v) == IF v = <<>> THEN d ELSE Put(d, k, v)

\* documents with any of the source fields missing, with roles as a list or as a
\* string, with and without shadow fields from an earlier write or from a client
NormalizeDocs ==
  { LET d1 == PutIf(PutIf(PutIf(PutIf(EmptyDict, "name", n), "agent_id", i),
                          "appid", a), "test", t)
        d2 == IF r.t = "none" THEN d1 ELSE Put(d1, "roles", r)
        d3 == PutIf(d2, "name_lc", sh)
    IN  IF sh = <<>> THEN d3 ELSE Put(d3, "roles_lc", <<sh>>) :
    n \in NormalizeNames, i \in NormalizeIds, a \in NormalizeAppids,
    t \in NormalizeTests, r \in NormalizeRoleValues, sh \in NormalizeShadows }

InitNormalize ==
  /\ store = EmptyDict
  /\ clock = 0
  /\ config = [DISCOVERY_TOP_K |-> 20]
  /\ wr = [w \in Writers |-> Idle]
  /\ dq \in {[pc |-> "normalize", doc |-> d] : d \in NormalizeDocs}

\* _apply_search_fields(doc)
NormalizeOnce ==
  /\ dq.pc = "normalize"
  /\ dq' = [pc |-> "once", doc |-> dq.doc, once |-> ApplySearchFields(dq.doc)]
  /\ UNCHANGED <<store, clock, config, wr>>

\* _apply_search_fields(doc) on the document it has already normalised
NormalizeAgain ==
  /\ dq.pc = "once"
  /\ dq' = [pc |-> "twice", doc |-> dq.doc, once |-> dq.once,
            twice |-> ApplySearchFields(dq.once)]
  /\ UNCHANGED <<store, clock, config, wr>>

NextNormalize == NormalizeOnce \/ NormalizeAgain

SpecNormalize == InitNormalize /\ [][NextNormalize]_vars

\* the source field of each scalar shadow field
ShadowSource ==
  [name_lc |-> "name", agent_id_lc |-> "agent_id", appid_lc |-> "appid",
   test_lc |-> "test"]

\* C21: normalising a normalised document changes nothing; after normalising,
\* all five shadow keys are present (a missing value is a missing key here, so
\* none is null), a shadow whose source field is missing is the empty string (the
\* empty list for roles), every field other than the shadows is as before, and
\* a shadow whose source is present is the fold of that source.
C21_NormalizeIdempotentTotal ==
  /\ dq.pc = "twice" => dq.twice = dq.once
  /\ dq.pc \in {"once", "twice"} =>
       /\ DOMAIN dq.once = (DOMAIN dq.doc) \cup ShadowKeys
       /\ \A f \in (DOMAIN dq.doc) \ ShadowKeys : dq.once[f] = dq.doc[f]
       /\ \A k \in DOMAIN ShadowSource :
            /\ ~Has(dq.doc, ShadowSource[k]) => dq.once[k] = <<>>
            /\ Has(dq.doc, ShadowSource[k]) =>
                 IsFoldOf(dq.once[k], dq.doc[ShadowSource[k]])
       /\ ~Has(dq.doc, "roles") => dq.once["roles_lc"] = <<>>
       /\ \A i \in 1..Len(dq.once["roles_lc"]) : NotBlank(dq.once["roles_lc"][i])

\* C21 witness: a document with a name, roles as a comma-separated string, no
\* appid and no test, carrying the shadows name_lc "zzz" and roles_lc ["zzz"],
\* normalised twice: name_lc "ops", roles_lc ["fin", "ops"], appid_lc and
\* test_lc empty.
C21_Witness ==
  /\ dq.pc = "twice"
  /\ dq.doc = [name |-> S_OpsPadded, agent_id |-> S_a1, roles |-> RolesStr(S_RolesCsv),
               name_lc |-> S_zzz, roles_lc |-> <<S_zzz>>]
  /\ dq.twice["name_lc"] = S_ops
  /\ dq.twice["roles_lc"] = << <<"f","i","n">>, S_ops >>
  /\ dq.twice["appid_lc"] = <<>> /\ dq.twice["test_lc"] = <<>>
  /\ dq.twice["roles"] = RolesStr(S_RolesCsv)

\* ------------------------------------------------------------------ register then get
S_DevT == <<"D","e","v">>

RoundTripRoles ==
  {[t |-> "none"], RolesList(<<S_DevT, S_Ops>>), RolesList(<<S_Dev, <<" ">> >>),
   RolesStr(S_RolesCsv)}

\* valid records: agent_id and name are never empty; <<>> (for enabled and
\* createdAt: FALSE) stands for a record without the key
RoundTripRecords ==
  { LET r1 == PutIf(PutIf([agent_id |-> i, name |-> n], "appid", a), "endpoint", x)
        r2 == IF r.t = "none" THEN r1 ELSE Put(r1, "roles", r)
        r3 == IF e THEN Put(r2, "enabled", FALSE) ELSE r2
        r4 == IF c THEN Put(r3, "createdAt", 7) ELSE r3
    IN  PutIf(r4, "id", k) :
    i \in {S_a1, S_b2}, n \in {S_OpsPadded, S_Bot}, a \in {<<>>, S_OPSPadded},
    x \in {<<>>, S_endpoint}, r \in RoundTripRoles, e \in BOOLEAN,
    c \in BOOLEAN, k \in {<<>>, S_zzz} }

\* the store is empty, or holds an earlier record of a1 with a test field
RoundTripStores ==
  { EmptyDict,
    UpsertItem(EmptyDict, UpsertDoc([agent_id |-> S_a1, name |-> S_Bot,
                                     test |-> S_T1], 0)) }

InitRoundTrip ==
  /\ store \in RoundTripStores
  /\ clock = 1
  /\ config = [DISCOVERY_TOP_K |-> 20]
  /\ wr = [w \in Writers |-> Idle]
  /\ dq \in {[pc |-> "rt_register", r |-> r] : r \in RoundTripRecords}

\* _agent_upsert(r)
RoundTripRegister ==
  /\ dq.pc = "rt_register"
  /\ UpsertValid(dq.r)
  /\ store' = UpsertItem(store, UpsertDoc(dq.r, clock))
  /\ dq' = [pc |-> "rt_get", r |-> dq.r]
  /\ UNCHANGED <<clock, config, wr>>

\* _agent_get(r.agent_id)
RoundTripGet ==
  /\ dq.pc = "rt_get"
  /\ dq' = [pc |-> "rt_done", r |-> dq.r,
            found |-> AgentExists(store, dq.r["agent_id"]),
            got |-> IF AgentExists(store, dq.r["agent_id"])
                    THEN store[dq.r["agent_id"]] ELSE EmptyDict]
  /\ UNCHANGED <<store, clock, config, wr>>

NextRoundTrip == RoundTripRegister \/ RoundTripGet

SpecRoundTrip == InitRoundTrip /\ [][NextRoundTrip]_vars

\* C22 (as claimed): registering a valid record r and then reading it returns a
\* record equal to r in every field of r except the shadow fields and updatedAt.
C22_AsClaimed ==
  dq.pc = "rt_done" =>
     /\ dq.found
     /\ \A f \in (DOMAIN dq.r) \ (ShadowKeys \cup {"updatedAt"}) :
          Has(dq.got, f) /\ dq.got[f] = dq.r[f]

\* C22 (amended): registering a valid record r and then reading it returns a
\* record that agrees with r on every field of r except the shadow fields,
\* updatedAt, id (always the agent_id) and roles, which comes back as the list of
\* its trimmed non-empty entries (equal to r's when r's roles is such a list);
\* the fields r lacks among appid, enabled, createdAt and roles come back as
\* agent_id, true, the time of the registration and the empty list, and no field
\* of an earlier record is returned.
C22_RoundTrip ==
  dq.pc = "rt_done" =>
     LET r == dq.r
         got == dq.got
     IN  /\ dq.found
         /\ DOMAIN got = (DOMAIN r) \cup UpsertKeys \cup ShadowKeys
         /\ \A f \in (DOMAIN r) \ (ShadowKeys \cup {"updatedAt", "id", "roles"}) :
              got[f] = r[f]
         /\ got["id"] = r["agent_id"]
         /\ got["roles"].t = "list"
         /\ \A i \in 1..Len(got["roles"].v) : NotBlank(got["roles"].v[i])
         /\ (Has(r, "roles") /\ r["roles"].t = "list"
               /\ \A i \in 1..Len(r["roles"].v) :
                     r["roles"].v[i] # <<>> /\ StrStrip(r["roles"].v[i]) = r["roles"].v[i])
              => got["roles"] = r["roles"]
         /\ ~Has(r, "roles") => got["roles"] = RolesList(<<>>)
         /\ ~Has(r, "appid") => got["appid"] = r["agent_id"]
         /\ ~Has(r, "enabled") => got["enabled"] = TRUE
         /\ ~Has(r, "createdAt") => got["createdAt"] = clock
         /\ got["updatedAt"] = clock

\* C22 witness: a1 registered over an earlier record with name " Ops ", roles
\* "Fin, ,ops" and an endpoint, then read: name and endpoint as sent, roles
\* ["Fin", "ops"], no test field from the earlier record.
C22_Witness ==
  /\ dq.pc = "rt_done" /\ dq.found
  /\ dq.r["agent_id"] = S_a1 /\ dq.r["name"] = S_OpsPadded
  /\ Has(dq.r, "roles") /\ dq.r["roles"] = RolesStr(S_RolesCsv)
  /\ Has(dq.r, "endpoint")
  /\ dq.got["name"] = S_OpsPadded /\ dq.got["endpoint"] = S_endpoint
  /\ dq.got["roles"] = RolesList(<< <<"F","i","n">>, S_ops >>)
  /\ ~Has(dq.got, "test") /\ dq.got["createdAt"] = 1

\* ------------------------------------------------------------------ admin key, absent ids
WrongHeaders == AdminHeaders \ {REGISTRY_ADMIN_KEY}

\* C23: a register, patch or delete request whose x-admin-key header is missing
\* or wrong is answered 401 in its first step and leaves the store as it was,
\* whatever its payload or route id and whether or not the record exists; a get
\* request carries no key and is answered 200 or 404.
C23_AdminKeyRequired ==
  [][/\ \A w \in Writers, h \in WrongHeaders :
          (\/ \E p \in WritePayloads : Register(w, h, p)
           \/ \E a \in RouteIds, p \in WritePatches : PatchGet(w, h, a, p)
           \/ \E a \in RouteIds : DeleteAgent(w, h, a))
          => /\ wr'[w].pc = "done"
             /\ wr'[w].status = 401
             /\ store' = store
     /\ \A w \in Writers, a \in RouteIds :
          GetAgent(w, a) => wr'[w].pc = "done" /\ wr'[w].status \in {200, 404}]_vars

\* C23 witness: with a1 stored, a delete without the key was answered 401 on
\* worker 1 and a patch without the key was answered 401 on worker 2, and a1 is
\* still stored.
C23_Witness ==
  /\ S_a1 \in DOMAIN store
  /\ wr[1].pc = "done" /\ wr[1].op = "delete" /\ wr[1].status = 401
  /\ wr[2].pc = "done" /\ wr[2].op = "patch" /\ wr[2].status = 401

\* C24: a get, patch or delete (with the admin key) for an agent_id that has no
\* stored record is answered 404 in its first step and leaves the store
\* unchanged, and no step of a patch request adds a key to the store.
C24_AbsentIs404 ==
  [][/\ \A w \in Writers, a \in RouteIds \ DOMAIN store :
          (\/ GetAgent(w, a)
           \/ \E p \in WritePatches : PatchGet(w, REGISTRY_ADMIN_KEY, a, p)
           \/ DeleteAgent(w, REGISTRY_ADMIN_KEY, a))
          => /\ wr'[w].pc = "done"
             /\ wr'[w].status = 404
             /\ store' = store
     /\ \A w \in Writers :
          (wr[w].pc = "patch_replace" /\ wr'[w] # wr[w])
             => DOMAIN store' = DOMAIN store]_vars

\* C24 witness: with a1 stored and b2 absent, a delete was answered 404 on worker
\* 1 and a patch was answered 404 on worker 2, and the store holds a1 only.
C24_Witness ==
  /\ DOMAIN store = {S_a1}
  /\ wr[1].pc = "done" /\ wr[1].op = "delete" /\ wr[1].status = 404
  /\ wr[2].pc = "done" /\ wr[2].op = "patch" /\ wr[2].status = 404

\* the payload lacks a name, or lacks both agent_id and appid (missing or empty)
LacksRequired(p) ==
  \/ ~Has(p, "name") \/ p["name"] = <<>>
  \/ /\ (~Has(p, "agent_id") \/ p["agent_id"] = <<>>)
     /\ (~Has(p, "appid") \/ p["appid"] = <<>>)

\* C25: a registration (with the admin key) whose payload lacks a name, or lacks
\* both agent_id and appid, is answered 400 with the missing-fields message and
\* leaves the store unchanged.
C25_MissingFieldsRejected ==
  [][\A w \in Writers, p \in WritePayloads :
       (LacksRequired(p) /\ Register(w, REGISTRY_ADMIN_KEY, p))
          => /\ wr'[w].pc = "done"
             /\ wr'[w].status \in 400..499
             /\ wr'[w].message = MissingFieldsMessage
             /\ store' = store]_vars

\* C25 witness: a registration was answered 400 with the missing-fields message
\* while a1 is stored from an earlier, valid registration.
C25_Witness ==
  /\ wr[1].pc = "done" /\ wr[1].op = "register" /\ wr[1].status = 400
  /\ wr[1].message = MissingFieldsMessage
  /\ S_a1 \in DOMAIN store

\* ------------------------------------------------------------------ store failure in discovery
\* a duration measured with time.perf_counter(), kept abstract
Elapsed == [elapsed |-> TRUE]

\* the positions of a discovery request at which its next step is a store call
StoreCallStages == {"list", "exact", "prefix", "contains", "hydrate_best", "hydrate_list"}

\* registry_discover, except Exception: the 500 response; the three stage timings
\* are written as None whatever had been measured
ErrorResponse(d) ==
  [pc |-> "done", status |-> 500, q_param |-> d.q_param, calls |-> d.calls,
   reads |-> d.reads, top_k |-> d.top_k, failed_at |-> d.pc,
   body |-> [error |-> "Discovery failed",
             timing_ms |-> [cosmos_query_ms |-> NoneVal, ranking_ms |-> NoneVal,
                            hydration_ms |-> NoneVal, total_ms |-> Elapsed]]]

\* the pending store call (query_items or read_item) raises; nothing catches it
\* before the handler's except clause
DiscoverFail ==
  /\ dq.pc \in StoreCallStages
  /\ dq' = ErrorResponse(dq)
  /\ UNCHANGED <<store, clock, config, wr>>

NextFailure == Next \/ DiscoverFail

SpecFailure == Init /\ [][NextFailure]_vars

\* C26: when a store call of a discovery request fails, the request is answered
\* at once (no retry) with status 500 and a body holding an error string, no
\* result fields, and a timing block with total_ms and with every stage timing
\* measured before the failure: cosmos_query_ms and, on the query path,
\* ranking_ms when the failure is in hydration.
C26_FailureResponse ==
  [][DiscoverFail =>
       /\ dq'.pc = "done" /\ dq'.status = 500
       /\ dq'.calls = dq.calls /\ dq'.reads = dq.reads
       /\ DOMAIN dq'.body = {"error", "timing_ms"}
       /\ dq'.body.timing_ms.total_ms # NoneVal
       /\ dq.pc \in {"hydrate_best", "hydrate_list"}
            => dq'.body.timing_ms.cosmos_query_ms # NoneVal
       /\ dq.pc = "hydrate_best" => dq'.body.timing_ms.ranking_ms # NoneVal]_vars

\* ------------------------------------------------------------------ the lazily created store client
\* Requests that run in parallel in one process, each inside _cosmos_container():
\* 0 is a discovery request (dq), the others are the workers of wr.
Requests == {0} \cup Writers

ReqState(r) == IF r = 0 THEN dq ELSE wr[r]

SetReq(r, v) ==
  IF r = 0 THEN dq' = v /\ wr' = wr
  ELSE wr' = [wr EXCEPT ![r] = v] /\ dq' = dq

\* module level: _cosmos_client = None; constructed counts the CosmosClient
\* objects built so far, and a client is named by its number
InitClient ==
  /\ store = EmptyDict
  /\ clock = 0
  /\ config = [DISCOVERY_TOP_K |-> 20, cosmos_client |-> 0, constructed |-> 0]
  /\ wr = [w \in Writers |-> Idle]
  /\ dq = Idle

\* if _cosmos_client is None: the test reads the global
ClientCheck(r) ==
  /\ ReqState(r).pc = "idle"
  /\ SetReq(r, [pc |-> IF config.cosmos_client = 0 THEN "construct" ELSE "use"])
  /\ UNCHANGED <<store, clock, config>>

\* CosmosClient(endpoint, credential=key): a new client object
ClientConstruct(r) ==
  /\ ReqState(r).pc = "construct"
  /\ config' = [config EXCEPT !.constructed = config.constructed + 1]
  /\ SetReq(r, [pc |-> "assign", made |-> config.constructed + 1])
  /\ UNCHANGED <<store, clock>>

\* _cosmos_client = <the new object>: the write to the global
ClientAssign(r) ==
  /\ ReqState(r).pc = "assign"
  /\ config' = [config EXCEPT !.cosmos_client = ReqState(r).made]
  /\ SetReq(r, [pc |-> "use"])
  /\ UNCHANGED <<store, clock>>

\* db = _cosmos_client.get_database_client(...): the global is read again
ClientUse(r) ==
  /\ ReqState(r).pc = "use"
  /\ SetReq(r, [pc |-> "container", client |-> config.cosmos_client])
  /\ UNCHANGED <<store, clock, config>>

\* the request ends; the next request of this worker starts from idle
ClientDone(r) ==
  /\ ReqState(r).pc = "container"
  /\ SetReq(r, Idle)
  /\ UNCHANGED <<store, clock, config>>

NextClient ==
  \/ \E r \in Requests : ClientCheck(r)
  \/ \E r \in Requests : ClientConstruct(r)
  \/ \E r \in Requests : ClientAssign(r)
  \/ \E r \in Requests : ClientUse(r)
  \/ \E r \in Requests : ClientDone(r)

SpecClient == InitClient /\ [][NextClient]_vars

\* C27: under any interleaving of concurrent requests the store client is
\* constructed at most once, and all requests use the same client.
C27_ClientConstructedOnce ==
  /\ config.constructed <= 1
  /\ \A r, s \in Requests :
       (ReqState(r).pc = "container" /\ ReqState(s).pc = "container")
          => ReqState(r).client = ReqState(s).client

\* ------------------------------------------------------------------ patch against delete
\* C28: when the record a patch read has been deleted before the patch's replace
\* call, the replace fails: the patch is answered with an error status, not 200,
\* the store is left as it was and the record stays absent.
C28_PatchNeverRecreates ==
  [][\A w \in Writers :
       (wr[w].pc = "patch_replace" /\ wr'[w] # wr[w]
          /\ ~AgentExists(store, wr[w].agent_id)) =>
       /\ wr'[w].pc = "done" /\ wr'[w].op = "patch"
       /\ wr'[w].status >= 400
       /\ store' = store
       /\ ~AgentExists(store', wr[w].agent_id)]_vars

\* C28 witness: worker 1's delete was answered 200, worker 2's patch, which had
\* read the record before, was answered 500, and the store is empty.
C28_Witness ==
  /\ wr[1].pc = "done" /\ wr[1].op = "delete" /\ wr[1].status = 200
  /\ wr[2].pc = "done" /\ wr[2].op = "patch" /\ wr[2].status = 500
  /\ store = EmptyDict

\* ------------------------------------------------------------------ retriever against scorer
ExactLabels ==
  {"exact name match", "exact agent_id match", "exact appid match",
   "exact test match", "exact role match: "}

PrefixLabels ==
  {"name prefix match", "agent_id prefix match", "appid prefix match",
   "test prefix match", "role prefix match: "}

\* the scored candidates a request shows: the ranked list while hydrating or in
\* a debug response, else the best match alone
ScoredOf(d) ==
  IF d.pc = "hydrate_best" THEN d.ranked
  ELSE IF d.pc # "done" \/ ~Has(d.body, "best_match_score") THEN <<>>
  ELSE IF Has(d.body, "candidates_ranked") THEN d.body.candidates_ranked
  ELSE IF d.body.best_match = NoneVal THEN <<>>
  ELSE <<[score |-> d.body.best_match_score, reasons |-> d.body.best_match_reasons]>>

Fires(entry, labels) == \E k \in 1..Len(entry.reasons) : entry.reasons[k][1] \in labels

\* the least score the claim gives a candidate of the stage
StageFloor(stage) ==
  CASE stage = "exact" -> 80 [] stage = "prefix" -> 25 [] stage = "contains" -> 20

\* C29 (as claimed): every candidate of the exact stage scores at least 80, every
\* candidate of the prefix stage scores at least 25 and fires no exact-tier
\* signal, every candidate of the contains stage scores at least 20 and fires no
\* exact-tier or prefix-tier signal, and none has only the enabled reason.
C29_AsClaimed ==
  \A k \in 1..Len(ScoredOf(dq)) :
     LET e == ScoredOf(dq)[k]
         stage == DiagOf(dq).stage_used
     IN  stage \in {"exact", "prefix", "contains"} =>
           /\ e.score >= StageFloor(stage)
           /\ Len(e.reasons) >= 2
           /\ stage = "prefix" => ~Fires(e, ExactLabels)
           /\ stage = "contains" => ~Fires(e, ExactLabels \cup PrefixLabels)

NoMatchInStore(stage, qn) == \A a \in DOMAIN store : ~MatchOf(stage, store[a], qn)

\* C29 (amended): every candidate of the exact stage scores at least 80; every
\* candidate of the prefix stage scores at least 25 and, when the store holds no
\* exact match at the time of the prefix query, fires no exact-tier signal; every
\* candidate of the contains stage scores at least 20 and, when the store holds
\* no exact (no prefix) match at the time of the contains query, fires no
\* exact-tier (no prefix-tier) signal; none has only the enabled reason.
C29_RetrieverScorerAgree ==
  [][\A stage \in {"exact", "prefix", "contains"} :
       (dq.pc = stage /\ dq'.pc # stage) =>
          \A k \in 1..Len(ScoredOf(dq')) :
             LET e == ScoredOf(dq')[k]
                 qn == SafeLower(dq.q)
             IN  /\ e.score >= StageFloor(stage)
                 /\ Len(e.reasons) >= 2
                 /\ (stage # "exact" /\ NoMatchInStore("exact", qn))
                      => ~Fires(e, ExactLabels)
                 /\ (stage = "contains" /\ NoMatchInStore("prefix", qn))
                      => ~Fires(e, PrefixLabels)]_vars

\* C29 witness: a debug response of the prefix stage for q = "billing" ranks a1,
\* found by its name "Billing Bot", with 85 + 10 points and no exact-tier reason.
C29_Witness ==
  /\ dq.pc = "done" /\ dq.status = 200
  /\ Has(dq.body, "candidates_ranked")
  /\ dq.body.diagnostics.stage_used = "prefix"
  /\ Len(dq.body.candidates_ranked) = 1
  /\ dq.body.candidates_ranked[1].score = 95
  /\ ~Fires(dq.body.candidates_ranked[1], ExactLabels)
  /\ Fires(dq.body.candidates_ranked[1], PrefixLabels)

\* ------------------------------------------------------------------ hydration of the best match against writes
RECURSIVE UpsertAll(_, _)
UpsertAll(st, payloads) ==
  IF payloads = {} THEN st
  ELSE LET p == CHOOSE x \in payloads : TRUE
       IN  UpsertAll(UpsertItem(st, UpsertDoc(p, 0)), payloads \ {p})

BestWriteIds == {S_a1, S_o1}
BestQueryParams == {S_billing, S_OPSPadded, S_p}

\* the three discovery records are registered; requests then ask for full documents
InitBest ==
  /\ store = UpsertAll(EmptyDict, DiscoveryPayloads)
  /\ clock = 1
  /\ config = [DISCOVERY_TOP_K |-> 20]
  /\ wr = [w \in Writers |-> Idle]
  /\ dq = Idle

NextBest ==
  \/ \E q \in BestQueryParams, d \in FlagParams :
        DiscoverBegin(q, <<>>, d, <<"Y","e","s">>)
  \/ QueryExact
  \/ QueryPrefix
  \/ QueryContains
  \/ HydrateBest
  \/ DiscoverReturn
  \/ \E a \in BestWriteIds : DeleteAgent(1, REGISTRY_ADMIN_KEY, a)
  \/ \E a \in BestWriteIds, p \in WritePatches : PatchGet(1, REGISTRY_ADMIN_KEY, a, p)
  \/ PatchReplace(1)
  \/ WriterReturn(1)

SpecBest == InitBest /\ [][NextBest]_vars

\* C30: on the query path with include_full the hydration step issues exactly one
\* point read, for the top-ranked candidate; best_match_score and
\* best_match_reasons of the response are the scorer's result on that candidate's
\* retrieved projection; best_match is the stored document of that agent_id as
\* it is at the read, patched or not, and the retrieved projection itself when
\* the record is gone.
C30_BestHydration ==
  [][(dq.pc = "hydrate_best" /\ dq' # dq) =>
       LET top == dq.ranked[1]
           items == LastCall(dq).items
           agent_id == top.agent["agent_id"]
       IN  /\ dq'.pc = "done" /\ dq'.status = 200
           /\ dq.reads = 0 /\ dq'.reads = 1
           /\ \E k \in 1..Len(items) : items[k] = top.agent
           /\ \A k \in 1..Len(items) : ScoreAgentMatch(items[k], dq.q).score <= top.score
           /\ dq'.body.best_match_score = ScoreAgentMatch(top.agent, dq.q).score
           /\ dq'.body.best_match_reasons = ScoreAgentMatch(top.agent, dq.q).reasons
           /\ dq'.body.best_match # NoneVal
           /\ dq'.body.best_match["agent_id"] = agent_id
           /\ IF AgentExists(store, agent_id)
              THEN dq'.body.best_match = store[agent_id]
              ELSE dq'.body.best_match = top.agent]_vars

\* C30 witness: a debug response for q = " OPS " with include_full whose top
\* candidate o1 was retrieved under the name "Ops" and patched to "Bot" before
\* the read: best_match is the patched document, the score 130 and the reason
\* "exact name match ('Ops')" are those of the projection.
C30_Witness ==
  /\ dq.pc = "done" /\ dq.status = 200 /\ dq.reads = 1
  /\ Has(dq.body, "candidates_ranked")
  /\ dq.body.candidates_ranked[1].agent["agent_id"] = S_o1
  /\ dq.body.candidates_ranked[1].agent["name"] = S_Ops
  /\ dq.body.best_match["agent_id"] = S_o1
  /\ dq.body.best_match["name"] = S_Bot
  /\ dq.body.best_match["test"] = S_T1
  /\ dq.body.best_match_score = 130
  /\ dq.body.best_match_reasons[1] = <<"exact name match", S_Ops>>

====
